---------------------------- MODULE Spec2Model ----------------------------
(***************************************************************************)
(* ChronOBS / ChronosPY: clock synchronisation over MQTT.                  *)
(*                                                                         *)
(* Every process is one ChronosPYApp (src/src/app.py): a Tk window that is *)
(* in exactly one view (connection, mode selection, producer, observer),   *)
(* an MQTTManager (src/src/mqtt/client.py) and the two role views of       *)
(* src/src/ui/views.py.  A step of the model is one whole callback: a UI   *)
(* callback run by Tk, or a callback run by the MQTT network loop.         *)
(*                                                                         *)
(* Texts (room ids, usernames, entry contents, JSON strings) are tuples of *)
(* one-character strings, so that strip/upper/int/validation are computed  *)
(* character by character as Python computes them.                         *)
(***************************************************************************)
EXTENDS Integers, Sequences, FiniteSets, TLC

VARIABLES
    app,    \* app[p]: the fields of process p's ChronosPYApp, MQTTManager and views
    inbox,  \* inbox[p]: messages the broker has sent to p that p's network loop has not handled yet
    last    \* the last step taken: which callback ran, on what, and what it handed to its collaborators

vars == <<app, inbox, last>>

(***************************************************************************)
(* Bounds of the model.                                                    *)
(***************************************************************************)
MaxInbox == 2

(***************************************************************************)
(* Texts.                                                                  *)
(***************************************************************************)
\* Python's None: a value different from every text (no text holds a
\* several-character element).
None == << "~None" >>

Alice == <<"a", "l", "i", "c", "e">>
Bob == <<"b", "o", "b">>
Unknown == <<"u", "n", "k", "n", "o", "w", "n">>

RoomABCDE == <<"A", "B", "C", "D", "E">>
RoomQ7XK2 == <<"Q", "7", "X", "K", "2">>

LowerSeq == <<"a","b","c","d","e","f","g","h","i","j","k","l","m",
              "n","o","p","q","r","s","t","u","v","w","x","y","z">>
UpperSeq == <<"A","B","C","D","E","F","G","H","I","J","K","L","M",
              "N","O","P","Q","R","S","T","U","V","W","X","Y","Z">>
DigitSeq == <<"0","1","2","3","4","5","6","7","8","9">>

\* a letter outside ASCII, for the texts a user may type: str.isalnum() and
\* str.upper() know it, string.ascii_letters does not hold it
OtherLowerSeq == <<"é">>
OtherUpperSeq == <<"É">>

Range(f) == { f[i] : i \in DOMAIN f }

ascii_lowercase == Range(LowerSeq)
ascii_uppercase == Range(UpperSeq)
ascii_letters == ascii_lowercase \cup ascii_uppercase
digits == Range(DigitSeq)
whitespace == {" ", "\t", "\n"}

IndexOf(seq, c) == CHOOSE i \in DOMAIN seq : seq[i] = c

\* str.upper(), one character
CharUpper(c) ==
    IF c \in ascii_lowercase THEN UpperSeq[IndexOf(LowerSeq, c)]
    ELSE IF c \in Range(OtherLowerSeq) THEN OtherUpperSeq[IndexOf(OtherLowerSeq, c)]
    ELSE c

\* str.upper()
StrUpper(t) == [i \in DOMAIN t |-> CharUpper(t[i])]

\* the positions of t that hold no whitespace
Inked(t) == {i \in DOMAIN t : t[i] \notin whitespace}

\* str.strip()
StrStrip(t) ==
    IF Inked(t) = {} THEN <<>>
    ELSE SubSeq(t, CHOOSE i \in Inked(t) : \A j \in Inked(t) : i <= j,
                   CHOOSE i \in Inked(t) : \A j \in Inked(t) : i >= j)

\* str.isalnum() on the characters the model's texts are made of: every
\* character is a letter or a digit of Unicode
StrIsAlnum(t) ==
    t # <<>> /\ \A i \in DOMAIN t :
                  t[i] \in ascii_letters \cup digits \cup Range(OtherLowerSeq) \cup Range(OtherUpperSeq)

DigitVal(c) == IndexOf(DigitSeq, c) - 1

\* the number a text of decimal digits denotes
DigitsVal(t) ==
    LET val[i \in 0..Len(t)] == IF i = 0 THEN 0 ELSE 10 * val[i - 1] + DigitVal(t[i])
    IN val[Len(t)]

\* int(text): surrounding whitespace stripped, an optional sign, then decimal
\* digits; anything else is a ValueError.  [ok, v]
PyInt(t) ==
    LET s == StrStrip(t)
        signed == s # <<>> /\ Head(s) \in {"+", "-"}
        body == IF signed THEN Tail(s) ELSE s
    IN IF body # <<>> /\ \A i \in DOMAIN body : body[i] \in digits
       THEN [ok |-> TRUE, v |-> IF signed /\ Head(s) = "-" THEN 0 - DigitsVal(body) ELSE DigitsVal(body)]
       ELSE [ok |-> FALSE, v |-> 0]

(***************************************************************************)
(* src/src/utils/helpers.py                                                *)
(***************************************************************************)
validate_room_id(room_id) ==
    IF room_id = <<>> THEN FALSE
    ELSE LET r == StrUpper(StrStrip(room_id))
         IN Len(r) = 5 /\ StrIsAlnum(r)

validate_username_isalnum(username) ==
    IF username = <<>> THEN FALSE
    ELSE LET u == StrStrip(username)
         IN ~(Len(u) < 3 \/ Len(u) > 20)
            /\ \A i \in DOMAIN u : StrIsAlnum(<<u[i]>>) \/ u[i] = "-"

validate_username(username) ==
    IF username = <<>> THEN FALSE
    ELSE LET u == StrStrip(username)
         IN ~(Len(u) < 3 \/ Len(u) > 20)
            /\ \A i \in DOMAIN u : u[i] \in ascii_letters \cup digits \cup {"-"}

\* generate_room_id draws 5 characters of A-Z0-9 at random: any such id may
\* come out, the same one twice included.  The model draws from two of them.
RoomIds == {RoomABCDE, RoomQ7XK2}

(***************************************************************************)
(* JSON.  A JSON value is [t, s, n, d]: a string s, an integer n, a number *)
(* n/d that Python holds as a float, or null.  A payload is the text       *)
(* handed to publish: [json, obj], not JSON at all ("invalid"), a JSON     *)
(* object with its members, or another JSON value ("other").               *)
(***************************************************************************)
JStr(x) == [t |-> "str", s |-> x, n |-> 0, d |-> 1]
JInt(i) == [t |-> "int", s |-> <<>>, n |-> i, d |-> 1]
JFloat(num, den) == [t |-> "float", s |-> <<>>, n |-> num, d |-> den]
JNull == [t |-> "null", s |-> <<>>, n |-> 0, d |-> 1]

NoMembers == [k \in {} |-> JNull]

json_dumps(obj) == [json |-> "object", obj |-> obj]
InvalidJson == [json |-> "invalid", obj |-> NoMembers]
NonObjectJson == [json |-> "other", obj |-> NoMembers]

\* dict.get(key, default)
DictGet(obj, key, default) == IF key \in DOMAIN obj THEN obj[key] ELSE default

A_JOIN == <<"J","O","I","N">>
A_LEAVE == <<"L","E","A","V","E">>
A_SYNC_REQ == <<"S","Y","N","C","_","R","E","Q">>
A_TIME_REQ == <<"T","I","M","E","_","R","E","Q">>
A_ASSIGN == <<"A","S","S","I","G","N">>
A_SYNC_RESPONSE == <<"S","Y","N","C","_","R","E","S","P","O","N","S","E">>
A_FOO == <<"F","O","O">>

Action(a) == "action" :> JStr(a)

JoinPayload == json_dumps(Action(A_JOIN))
LeavePayload == json_dumps(Action(A_LEAVE))
SyncReqPayload == json_dumps(Action(A_SYNC_REQ))
TimeReqPayload(requester, requester_delay, main_observer_delay) ==
    json_dumps(Action(A_TIME_REQ) @@ "requester" :> requester
               @@ "requester_delay" :> requester_delay
               @@ "main_observer_delay" :> main_observer_delay)
AssignPayload(time_ms) == json_dumps(Action(A_ASSIGN) @@ "time_ms" :> JInt(time_ms))
SyncResponsePayload(value) == json_dumps(Action(A_SYNC_RESPONSE) @@ "value" :> value)

\* Python's x / 1000 on an int or float: true division, a float
TrueDiv1000(v) == JFloat(v.n, v.d * 1000)

\* whether a JSON number equals the rational num/den
NumEquals(v, num, den) == v.t \in {"int", "float"} /\ v.n * den = num * v.d

IsNumber(v) == v.t \in {"int", "float"}
NumAdd(a, b) == IF a.t = "int" /\ b.t = "int" THEN JInt(a.n + b.n)
                ELSE JFloat(a.n * b.d + b.n * a.d, a.d * b.d)
NumSub(a, b) == IF a.t = "int" /\ b.t = "int" THEN JInt(a.n - b.n)
                ELSE JFloat(a.n * b.d - b.n * a.d, a.d * b.d)

(***************************************************************************)
(* Topics are their "/"-separated segments: f"{room_id}/{username}" is     *)
(* <<room_id, username>>, and topic.split("/") is the topic itself.        *)
(***************************************************************************)
Topic(room_id, username) == <<room_id, username>>
RoomWildcard(room_id) == <<room_id, <<"#">> >>

\* the broker's topic filter match: a filter ending in # matches every topic
\* under its prefix, any other filter matches the one topic it spells
Matches(pattern, topic) ==
    IF pattern # <<>> /\ pattern[Len(pattern)] = <<"#">>
    THEN Len(topic) >= Len(pattern) - 1
         /\ SubSeq(topic, 1, Len(pattern) - 1) = SubSeq(pattern, 1, Len(pattern) - 1)
    ELSE pattern = topic

Msg(topic, payload) == [topic |-> topic, payload |-> payload]


(***************************************************************************)
(* The fields of one process, as its constructors leave them.              *)
(***************************************************************************)
InitApp ==
    [current_view |-> "connection",
     \* MQTTManager
     is_connected |-> FALSE,
     has_client |-> FALSE,
     \* the client's connection: "none", "connecting" (CONNECT sent), "up"
     link |-> "none",
     \* the topic filters the broker holds for the client's session
     subs |-> {},
     \* a pending root.after(1000, show MODE_SELECTION)
     timer |-> FALSE,
     \* ProducerView
     room_id |-> None,
     connected_users |-> <<>>,
     main_observer_var |-> None,
     users_frame |-> FALSE,
     \* ObserverView
     current_room_id |-> None,
     current_username |-> None,
     \* the SYNC button: "none" (never created), "disabled", "normal", "destroyed"
     sync_btn |-> "none",
     \* whether the alt+ctrl+t hotkey is registered (it is, by __init__)
     hotkey |-> TRUE,
     \* the user whose row the Tk thread is removing: remove_user found the
     \* row and has not touched it yet (None: no remove_user under way)
     removing |-> None]

(***************************************************************************)
(* What a callback gives back: the process's fields after it (s), the      *)
(* messages it handed to the transport (pubs), the values it handed to the *)
(* time sink (sink), the error dialogs it showed (box), whether an         *)
(* exception left it (exc), what the time source answered it (time), and   *)
(* the calls that reached the MQTT client, in the order they were made     *)
(* (calls): a callback that only publishes made one publish call for each  *)
(* message.                                                                *)
(***************************************************************************)
PublishCall(topic) == <<"publish", topic>>
SubscribeCall(pattern) == <<"subscribe", pattern>>
ConnectCall == <<"connect">>
DisconnectCall == <<"disconnect">>

Ret(s, pubs, sink, box, exc) ==
    [s |-> s, pubs |-> pubs, sink |-> sink, box |-> box, exc |-> exc, caught |-> FALSE,
     time |-> <<>>, calls |-> [i \in DOMAIN pubs |-> PublishCall(pubs[i].topic)]]
Quiet(s) == Ret(s, <<>>, <<>>, <<>>, FALSE)
Raised(s) == Ret(s, <<>>, <<>>, <<>>, TRUE)

(***************************************************************************)
(* src/src/mqtt/client.py: MQTTManager                                     *)
(***************************************************************************)
NotConnected(s) == ~s.has_client \/ ~s.is_connected

\* MQTTManager.publish: [ok, pubs]; not ok is the RuntimeError
publish(s, topic, payload) ==
    IF NotConnected(s) THEN [ok |-> FALSE, pubs |-> <<>>]
    ELSE [ok |-> TRUE, pubs |-> <<Msg(topic, payload)>>]

publish_sync_message_twice(s, room_id, username) ==
    IF NotConnected(s) THEN [ok |-> FALSE, pubs |-> <<>>]
    ELSE [ok |-> TRUE, pubs |-> <<Msg(Topic(room_id, username), SyncReqPayload),
                                  Msg(Topic(room_id, username), SyncReqPayload)>>]

\* MQTTManager.publish_sync_message
publish_sync_message(s, room_id, username) ==
    IF NotConnected(s) THEN [ok |-> FALSE, pubs |-> <<>>]
    ELSE [ok |-> TRUE, pubs |-> <<Msg(Topic(room_id, username), SyncReqPayload)>>]

\* MQTTManager.subscribe: [ok, s]
subscribe(s, pattern) ==
    IF NotConnected(s) THEN [ok |-> FALSE, s |-> s]
    ELSE [ok |-> TRUE, s |-> [s EXCEPT !.subs = @ \cup {pattern}]]

\* MQTTManager.connect; ok: whether the client's connect call went through.
\* A new client is a new session: it holds no subscription.
connect(s, ok) ==
    IF ok THEN [s EXCEPT !.has_client = TRUE, !.link = "connecting", !.subs = {}]
    ELSE [s EXCEPT !.has_client = TRUE, !.is_connected = FALSE, !.link = "none", !.subs = {}]

\* MQTTManager.disconnect: the loop is stopped and the session ended
disconnect(s) ==
    [s EXCEPT !.is_connected = FALSE,
              !.link = IF s.has_client THEN "none" ELSE @,
              !.subs = IF s.has_client THEN {} ELSE @]

(***************************************************************************)
(* src/src/ui/views.py: ProducerView                                       *)
(***************************************************************************)
DefaultTimeEntry == <<"1", "0", "0", "0">>

\* the texts a "Time (ms)" entry holds in the scenarios, and int() of each
EntryTexts == {DefaultTimeEntry, <<"5", "0", "0">>, <<"x">>}
\* a number int() accepts and no delay can be
NegativeEntry == <<"-", "5">>
IntOfEntry == [t \in EntryTexts \cup {NegativeEntry} |-> PyInt(t)]

\* ProducerView.show; room_id is what generate_room_id returned
ProducerView_show(s, room_id) ==
    [s EXCEPT !.room_id = room_id, !.main_observer_var = <<>>, !.users_frame = TRUE]

\* BaseView.hide on the producer view: every widget of the view is destroyed,
\* the user rows with their entries (and what they held) included;
\* connected_users keeps its keys
ProducerView_hide(s) ==
    [s EXCEPT !.connected_users = [u \in DOMAIN @ |-> [time_entry |-> <<>>, alive |-> FALSE]]]

add_user_overwrites(s, username) ==
    IF ~s.users_frame \/ s.main_observer_var = None THEN s
    ELSE [s EXCEPT !.connected_users =
            (username :> [time_entry |-> DefaultTimeEntry, alive |-> TRUE]) @@ @]

add_user(s, username) ==
    IF username \in DOMAIN s.connected_users \/ ~s.users_frame \/ s.main_observer_var = None
    THEN s
    ELSE [s EXCEPT !.connected_users =
            @ @@ (username :> [time_entry |-> DefaultTimeEntry, alive |-> TRUE])]

remove_user_unchecked(s, username) ==
    [s EXCEPT !.main_observer_var = IF @ # None THEN <<>> ELSE @,
              !.connected_users = [u \in DOMAIN @ \ {username} |-> @[u]]]

remove_user_keeps_selection(s, username) ==
    IF username \notin DOMAIN s.connected_users THEN s
    ELSE [s EXCEPT !.connected_users = [u \in DOMAIN @ \ {username} |-> @[u]]]

remove_user(s, username) ==
    IF username \notin DOMAIN s.connected_users THEN s
    ELSE [s EXCEPT !.main_observer_var = IF @ # None /\ @ = username THEN <<>> ELSE @,
                   !.connected_users = [u \in DOMAIN @ \ {username} |-> @[u]]]

\* ProducerView.get_user_time: [r, v] with r = "none" (no such user), "int",
\* or "raise" (the row's entry widget was destroyed with an earlier view: its
\* get() raises TclError, which is not the ValueError the method catches)
get_user_time(s, username) ==
    IF username \notin DOMAIN s.connected_users THEN [r |-> "none", v |-> 0]
    ELSE IF ~s.connected_users[username].alive THEN [r |-> "raise", v |-> 0]
    ELSE LET i == IntOfEntry[s.connected_users[username].time_entry]
         IN IF i.ok THEN [r |-> "int", v |-> i.v] ELSE [r |-> "int", v |-> 1000]

get_main_observer(s) ==
    IF s.main_observer_var # None
    THEN (IF s.main_observer_var # <<>> THEN s.main_observer_var ELSE None)
    ELSE None

\* ProducerView.get_all_users_config: the roster as the view reports it
get_all_users_config_any(s) ==
    [u \in DOMAIN s.connected_users |->
        [time_ms |-> get_user_time(s, u), is_main_observer |-> get_main_observer(s) # None]]

get_all_users_config(s) ==
    [u \in DOMAIN s.connected_users |->
        [time_ms |-> get_user_time(s, u), is_main_observer |-> u = get_main_observer(s)]]

on_send_time_request_twice(s, topic, payload) ==
    LET p == publish(s, topic, payload)
    IN IF p.ok THEN Ret(s, p.pubs \o p.pubs, <<>>, <<>>, FALSE)
       ELSE Ret(s, <<>>, <<>>, <<"Error sending TIME_REQ">>, FALSE)

\* ViewCallbacksImpl.on_send_time_request
on_send_time_request(s, topic, payload) ==
    LET p == publish(s, topic, payload)
    IN IF p.ok THEN Ret(s, p.pubs, <<>>, <<>>, FALSE)
       ELSE Ret(s, <<>>, <<>>, <<"Error sending TIME_REQ">>, FALSE)

\* ProducerView._handle_sync_request
handle_sync_request_no_main_check(s, topic) ==
    IF Len(topic) < 2 THEN Quiet(s)
    ELSE LET requester == topic[Len(topic)]
             main_observer == get_main_observer(s)
             rd == get_user_time(s, requester)
             md == get_user_time(s, main_observer)
         IN IF rd.r = "raise" \/ md.r = "raise" THEN Raised(s)
            ELSE on_send_time_request(s, Topic(s.room_id, main_observer),
                    TimeReqPayload(JStr(requester),
                        JInt(IF rd.r = "none" THEN 1000 ELSE rd.v),
                        JInt(IF md.r = "none" THEN 1000 ELSE md.v)))

handle_sync_request_members_only(s, topic) ==
    IF Len(topic) < 2 THEN Quiet(s)
    ELSE LET requester == topic[Len(topic)]
             main_observer == get_main_observer(s)
         IN IF main_observer = None \/ main_observer = <<>> THEN Quiet(s)
            ELSE IF s.room_id = None \/ s.room_id = <<>> THEN Quiet(s)
            ELSE IF requester \notin DOMAIN s.connected_users THEN Quiet(s)
            ELSE LET rd == get_user_time(s, requester)
                     md == get_user_time(s, main_observer)
                 IN IF rd.r = "raise" \/ md.r = "raise" THEN Raised(s)
                    ELSE on_send_time_request(s, Topic(s.room_id, main_observer),
                            TimeReqPayload(JStr(requester), JInt(rd.v),
                                JInt(IF md.r = "none" THEN 1000 ELSE md.v)))

handle_sync_request(s, topic) ==
    IF Len(topic) < 2 THEN Quiet(s)
    ELSE LET requester == topic[Len(topic)]
             main_observer == get_main_observer(s)
         IN IF main_observer = None \/ main_observer = <<>> THEN Quiet(s)
            ELSE IF s.room_id = None \/ s.room_id = <<>> THEN Quiet(s)
            ELSE LET rd == get_user_time(s, requester)
                     md == get_user_time(s, main_observer)
                 IN IF rd.r = "raise" \/ md.r = "raise" THEN Raised(s)
                    ELSE on_send_time_request(s, Topic(s.room_id, main_observer),
                            TimeReqPayload(JStr(requester),
                                JInt(IF rd.r = "none" THEN 1000 ELSE rd.v),
                                JInt(IF md.r = "none" THEN 1000 ELSE md.v)))

\* ProducerView.add_message
add_message(s, topic, payload) ==
    IF payload.json = "invalid" THEN Quiet(s)          \* JSONDecodeError, caught
    ELSE IF payload.json # "object" THEN Raised(s)     \* data.get: AttributeError
    ELSE LET action == DictGet(payload.obj, "action", JNull)
         IN IF action = JStr(A_SYNC_REQ) THEN handle_sync_request(s, topic)
            ELSE IF action \in {JStr(A_JOIN), JStr(A_LEAVE)}
            THEN IF Len(topic) >= 2
                 THEN IF action = JStr(A_JOIN)
                      THEN Quiet(add_user(s, topic[Len(topic)]))
                      ELSE Quiet(remove_user(s, topic[Len(topic)]))
                 ELSE Quiet(s)
            ELSE Quiet(s)


(***************************************************************************)
(* src/src/utils/riot.py: the replay API.  The model draws what it answers.*)
(***************************************************************************)
\* the values get_current_time may return (ms), when it returns
Times == {120000, 90250}

\* the replay API when a callback calls it: up (get_current_time returns t,
\* set_time returns) or not (the request raises)
Worlds ==
    {[up |-> TRUE, t |-> t] : t \in Times} \cup {[up |-> FALSE, t |-> 0]}

(***************************************************************************)
(* src/src/ui/views.py: ObserverView                                       *)
(***************************************************************************)
\* ObserverView.show: the SYNC button is created disabled
ObserverView_show(s) == [s EXCEPT !.sync_btn = "disabled"]

\* ObserverView.hide: [ok, s].  keyboard.remove_hotkey comes first; kb says
\* whether it raises when the hotkey is not registered any more (it was
\* registered once, in __init__)
ObserverView_hide(s, kb) ==
    IF ~s.hotkey /\ kb THEN [ok |-> FALSE, s |-> s]
    ELSE [ok |-> TRUE, s |-> [s EXCEPT !.hotkey = FALSE, !.sync_btn = "destroyed"]]

\* str(x) for the f-string of the response topic
RECURSIVE NatStr(_)
NatStr(n) == IF n < 10 THEN <<DigitSeq[n + 1]>> ELSE NatStr(n \div 10) \o <<DigitSeq[(n % 10) + 1]>>

FormatStr(v) ==
    CASE v.t = "str" -> v.s
      [] v.t = "int" -> IF v.n < 0 THEN <<"-">> \o NatStr(0 - v.n) ELSE NatStr(v.n)
      [] OTHER -> <<"N", "o", "n", "e">>

on_send_time_response_dropped(s, topic, payload) == Quiet(s)

\* ViewCallbacksImpl.on_send_time_response
on_send_time_response(s, topic, payload) ==
    LET p == publish(s, topic, payload)
    IN IF p.ok THEN Ret(s, p.pubs, <<>>, <<>>, FALSE)
       ELSE Ret(s, <<>>, <<>>, <<"Error sending TIME_RESPONSE">>, FALSE)

SyncValue_floor(actual_time, requester_delay, main_observer_delay) ==
    JInt((actual_time + requester_delay.n - main_observer_delay.n) \div 1000)

\* the value of a SYNC_RESPONSE
SyncValue(actual_time, requester_delay, main_observer_delay) ==
    TrueDiv1000(NumSub(NumAdd(JInt(actual_time), requester_delay), main_observer_delay))

handle_time_request_fallback(s, original_topic, requester, requester_delay, main_observer_delay, w) ==
    IF s.current_room_id \in {None, <<>>} \/ s.current_username \in {None, <<>>} THEN Quiet(s)
    ELSE IF ~IsNumber(requester_delay) \/ ~IsNumber(main_observer_delay) THEN Raised(s)
    ELSE on_send_time_response(s, Topic(s.current_room_id, FormatStr(requester)),
            SyncResponsePayload(SyncValue(IF w.up THEN w.t ELSE 0, requester_delay,
                                          main_observer_delay)))

handle_time_request_ungated(s, original_topic, requester, requester_delay, main_observer_delay, w) ==
    IF ~w.up THEN Raised(s)
    ELSE IF ~IsNumber(requester_delay) \/ ~IsNumber(main_observer_delay)
    THEN [Raised(s) EXCEPT !.time = <<w.t>>]
    ELSE [on_send_time_response(s,
            Topic(IF s.current_room_id = None THEN <<"N", "o", "n", "e">> ELSE s.current_room_id,
                  FormatStr(requester)),
            SyncResponsePayload(SyncValue(w.t, requester_delay, main_observer_delay)))
          EXCEPT !.time = <<w.t>>]

handle_time_request_to_original_topic(s, original_topic, requester, requester_delay, main_observer_delay, w) ==
    IF s.current_room_id \in {None, <<>>} \/ s.current_username \in {None, <<>>} THEN Quiet(s)
    ELSE IF ~w.up THEN Raised(s)
    ELSE IF ~IsNumber(requester_delay) \/ ~IsNumber(main_observer_delay)
    THEN [Raised(s) EXCEPT !.time = <<w.t>>]
    ELSE [on_send_time_response(s, original_topic,
            SyncResponsePayload(SyncValue(w.t, requester_delay, main_observer_delay)))
          EXCEPT !.time = <<w.t>>]

\* ObserverView._handle_time_request
handle_time_request(s, original_topic, requester, requester_delay, main_observer_delay, w) ==
    IF s.current_room_id \in {None, <<>>} \/ s.current_username \in {None, <<>>} THEN Quiet(s)
    ELSE IF ~w.up THEN Raised(s)
    ELSE IF ~IsNumber(requester_delay) \/ ~IsNumber(main_observer_delay)
    THEN [Raised(s) EXCEPT !.time = <<w.t>>]
    ELSE [on_send_time_response(s, Topic(s.current_room_id, FormatStr(requester)),
            SyncResponsePayload(SyncValue(w.t, requester_delay, main_observer_delay)))
          EXCEPT !.time = <<w.t>>]

\* utils.riot.set_time, called with the value of a SYNC_RESPONSE
set_time(s, value, w) == Ret(s, <<>>, <<value>>, <<>>, ~w.up)

add_received_message_assign_applied(s, topic, payload, w) ==
    IF payload.json = "invalid" THEN Quiet(s)
    ELSE IF payload.json # "object" THEN Raised(s)
    ELSE LET action == DictGet(payload.obj, "action", JNull)
         IN IF action = JStr(A_TIME_REQ)
            THEN handle_time_request(s, topic,
                    DictGet(payload.obj, "requester", JStr(Unknown)),
                    DictGet(payload.obj, "requester_delay", JInt(0)),
                    DictGet(payload.obj, "main_observer_delay", JInt(0)), w)
            ELSE IF action = JStr(A_ASSIGN)
            THEN set_time(s, DictGet(payload.obj, "time_ms", JInt(0)), w)
            ELSE IF action = JStr(A_SYNC_RESPONSE)
            THEN set_time(s, DictGet(payload.obj, "value", JInt(0)), w)
            ELSE Quiet(s)

\* ObserverView.add_received_message
add_received_message(s, topic, payload, w) ==
    IF payload.json = "invalid" THEN Quiet(s)
    ELSE IF payload.json # "object" THEN Raised(s)
    ELSE LET action == DictGet(payload.obj, "action", JNull)
         IN IF action = JStr(A_TIME_REQ)
            THEN handle_time_request(s, topic,
                    DictGet(payload.obj, "requester", JStr(Unknown)),
                    DictGet(payload.obj, "requester_delay", JInt(0)),
                    DictGet(payload.obj, "main_observer_delay", JInt(0)), w)
            ELSE IF action = JStr(A_ASSIGN) THEN Quiet(s)
            ELSE IF action = JStr(A_SYNC_RESPONSE)
            THEN set_time(s, DictGet(payload.obj, "value", JInt(0)), w)
            ELSE Quiet(s)

(***************************************************************************)
(* src/src/app.py: ChronosPYApp and ViewCallbacksImpl                      *)
(***************************************************************************)
\* ChronosPYApp._show_view: [ok, s]; room_id is what generate_room_id gives
\* if the producer view is the one shown
show_view(s, view, room_id, kb) ==
    LET hidden == CASE s.current_view = "producer" -> [ok |-> TRUE, s |-> ProducerView_hide(s)]
                    [] s.current_view = "observer" -> ObserverView_hide(s, kb)
                    [] OTHER -> [ok |-> TRUE, s |-> s]
        h == [hidden.s EXCEPT !.current_view = view]
    IN IF ~hidden.ok THEN hidden
       ELSE [ok |-> TRUE,
             s |-> CASE view = "producer" -> ProducerView_show(h, room_id)
                     [] view = "observer" -> ObserverView_show(h)
                     [] OTHER -> h]

\* ChronosPYApp._on_mqtt_connection_changed
on_mqtt_connection_changed(s, is_connected) ==
    IF is_connected THEN [s EXCEPT !.timer = TRUE] ELSE s

\* ChronosPYApp._on_mqtt_message_received
on_mqtt_message_received_by_action(s, topic, payload, w) ==
    IF s.current_view \notin {"producer", "observer"} THEN Quiet(s)
    ELSE IF payload.json = "object"
            /\ DictGet(payload.obj, "action", JNull)
                    \in {JStr(A_TIME_REQ), JStr(A_ASSIGN), JStr(A_SYNC_RESPONSE)}
    THEN add_received_message(s, topic, payload, w)
    ELSE add_message(s, topic, payload)

on_mqtt_message_received(s, topic, payload, w) ==
    IF s.current_view = "producer" THEN add_message(s, topic, payload)
    ELSE IF s.current_view = "observer" THEN add_received_message(s, topic, payload, w)
    ELSE Quiet(s)

on_message_uncaught(s, topic, payload, w) == on_mqtt_message_received(s, topic, payload, w)

\* MQTTManager._on_message: whatever the callback raises is caught and printed
on_message(s, topic, payload, w) ==
    LET r == on_mqtt_message_received(s, topic, payload, w)
    IN [r EXCEPT !.exc = FALSE, !.caught = r.exc]

\* MQTTManager._on_connect
on_connect(s, rc) ==
    on_mqtt_connection_changed(
        [s EXCEPT !.is_connected = (rc = 0), !.link = IF rc = 0 THEN "up" ELSE "none"], rc = 0)

\* MQTTManager._on_disconnect: the connection is lost, and with it the session
on_disconnect(s) ==
    on_mqtt_connection_changed([s EXCEPT !.is_connected = FALSE, !.link = "none", !.subs = {}], FALSE)

\* ViewCallbacksImpl.on_connect_requested
on_connect_requested(s, ok) ==
    IF ok THEN [Quiet(connect(s, ok)) EXCEPT !.calls = <<ConnectCall>>]
    ELSE [Ret(connect(s, ok), <<>>, <<>>, <<"Connection Error">>, FALSE)
          EXCEPT !.calls = <<ConnectCall>>]

\* ViewCallbacksImpl._setup_producer_mode
setup_producer_mode(s) ==
    IF s.room_id \in {None, <<>>} THEN Quiet(s)
    ELSE LET sub == subscribe(s, RoomWildcard(s.room_id))
         IN IF sub.ok
            THEN [Quiet(sub.s) EXCEPT !.calls = <<SubscribeCall(RoomWildcard(s.room_id))>>]
            ELSE Ret(s, <<>>, <<>>, <<"Error subscribing to topic">>, FALSE)

\* ViewCallbacksImpl.on_mode_selected
on_mode_selected(s, mode, room_id, kb) ==
    IF mode = "producer"
    THEN LET v == show_view(s, "producer", room_id, kb)
         IN IF v.ok THEN setup_producer_mode(v.s) ELSE Raised(v.s)
    ELSE IF mode = "observer"
    THEN LET v == show_view(s, "observer", room_id, kb)
         IN IF v.ok THEN Quiet(v.s) ELSE Raised(v.s)
    ELSE Quiet(s)

\* ObserverView.update_join_status
update_join_status(s) ==
    [s EXCEPT !.sync_btn = IF @ # "none" THEN "normal" ELSE @]

on_room_joined_publish_first(s, room_id, username) ==
    LET s1 == update_join_status(s)
        pub == publish(s1, Topic(room_id, username), JoinPayload)
        sub == subscribe(s1, Topic(room_id, username))
    IN IF ~sub.ok \/ ~pub.ok
       THEN Ret(s1, <<>>, <<>>, <<"Error sending join message">>, FALSE)
       ELSE [Ret(sub.s, pub.pubs, <<>>, <<>>, FALSE)
             EXCEPT !.calls = <<PublishCall(Topic(room_id, username)),
                                SubscribeCall(Topic(room_id, username))>>]

\* ViewCallbacksImpl.on_room_joined
on_room_joined(s, room_id, username) ==
    LET s1 == update_join_status(s)
        sub == subscribe(s1, Topic(room_id, username))
        pub == publish(sub.s, Topic(room_id, username), JoinPayload)
    IN IF ~sub.ok \/ ~pub.ok
       THEN Ret(s1, <<>>, <<>>, <<"Error sending join message">>, FALSE)
       ELSE [Ret(sub.s, pub.pubs, <<>>, <<>>, FALSE)
             EXCEPT !.calls = <<SubscribeCall(Topic(room_id, username)),
                                PublishCall(Topic(room_id, username))>>]

on_join_clicked_session_first(s, room_text, username_text) ==
    LET room_id == StrUpper(StrStrip(room_text))
        username == StrStrip(username_text)
        s1 == [s EXCEPT !.current_room_id = room_id, !.current_username = username]
    IN IF ~validate_room_id(room_id)
       THEN Ret(s1, <<>>, <<>>, <<"Room ID must be 5 alphanumeric characters">>, FALSE)
       ELSE IF ~validate_username(username)
       THEN Ret(s1, <<>>, <<>>, <<"Username must be 3-20 characters">>, FALSE)
       ELSE on_room_joined(s1, room_id, username)

\* ObserverView._on_join_clicked; the texts are what the two entries hold
on_join_clicked(s, room_text, username_text) ==
    LET room_id == StrUpper(StrStrip(room_text))
        username == StrStrip(username_text)
    IN IF ~validate_room_id(room_id)
       THEN Ret(s, <<>>, <<>>, <<"Room ID must be 5 alphanumeric characters">>, FALSE)
       ELSE IF ~validate_username(username)
       THEN Ret(s, <<>>, <<>>, <<"Username must be 3-20 characters">>, FALSE)
       ELSE on_room_joined([s EXCEPT !.current_room_id = room_id, !.current_username = username],
                           room_id, username)

on_sync_requested_silent(s) ==
    IF s.current_room_id \in {None, <<>>} \/ s.current_username \in {None, <<>>}
    THEN Ret(s, <<>>, <<>>, <<"You must join a room first">>, FALSE)
    ELSE Ret(s, publish_sync_message(s, s.current_room_id, s.current_username).pubs,
             <<>>, <<>>, FALSE)

\* ViewCallbacksImpl.on_sync_requested
on_sync_requested(s) ==
    IF s.current_room_id \in {None, <<>>} \/ s.current_username \in {None, <<>>}
    THEN Ret(s, <<>>, <<>>, <<"You must join a room first">>, FALSE)
    ELSE LET p == publish_sync_message(s, s.current_room_id, s.current_username)
         IN IF p.ok THEN Ret(s, p.pubs, <<>>, <<>>, FALSE)
            ELSE Ret(s, <<>>, <<>>, <<"Error sending message">>, FALSE)

\* ObserverView._on_hotkey_sync: reading the state of a button that was
\* destroyed with its view raises TclError
on_hotkey_sync(s) ==
    IF s.sync_btn = "none" THEN Quiet(s)
    ELSE IF s.sync_btn = "destroyed" THEN Raised(s)
    ELSE IF s.sync_btn # "disabled" THEN on_sync_requested(s)
    ELSE Quiet(s)

\* the LEAVE that on_back_requested, on_disconnect_requested and
\* _on_window_closing send for a joined observer; a failed publish is printed
LeaveIfJoined(s) ==
    IF s.current_view = "observer"
       /\ s.current_room_id \notin {None, <<>>} /\ s.current_username \notin {None, <<>>}
    THEN publish(s, Topic(s.current_room_id, s.current_username), LeavePayload).pubs
    ELSE <<>>

on_back_requested_surfaces(s, kb) ==
    LET v == show_view(s, "mode_selection", None, kb)
    IN IF s.current_view = "observer" /\ NotConnected(s)
          /\ s.current_room_id \notin {None, <<>>} /\ s.current_username \notin {None, <<>>}
       THEN Ret(s, <<>>, <<>>, <<"Error sending LEAVE message">>, FALSE)
       ELSE Ret(v.s, LeaveIfJoined(s), <<>>, <<>>, ~v.ok)

\* ViewCallbacksImpl.on_back_requested
on_back_requested(s, kb) ==
    LET v == show_view(s, "mode_selection", None, kb)
    IN Ret(v.s, LeaveIfJoined(s), <<>>, <<>>, ~v.ok)

\* ViewCallbacksImpl.on_disconnect_requested
on_disconnect_requested(s, kb) ==
    LET v == show_view(disconnect(s), "connection", None, kb)
        r == Ret(v.s, LeaveIfJoined(s), <<>>, <<>>, ~v.ok)
    IN [r EXCEPT !.calls = IF s.has_client THEN @ \o <<DisconnectCall>> ELSE @]

\* ChronosPYApp._on_window_closing: the LEAVE goes out only while connected,
\* then the manager disconnects and the window is destroyed: the mainloop
\* returns and the process, with all its fields, is gone
on_window_closing(s) ==
    LET r == Ret([InitApp EXCEPT !.current_view = "destroyed", !.hotkey = FALSE],
                 IF s.is_connected THEN LeaveIfJoined(s) ELSE <<>>, <<>>, <<>>, FALSE)
    IN [r EXCEPT !.calls = IF s.is_connected /\ s.has_client THEN @ \o <<DisconnectCall>> ELSE @]

on_assign_user_resets_entry(s, username, time_ms) ==
    IF s.current_view = "producer" /\ s.room_id \notin {None, <<>>} /\ username # <<>>
    THEN LET p == publish(s, Topic(s.room_id, username), AssignPayload(time_ms))
         IN IF p.ok
            THEN Ret([s EXCEPT !.connected_users[username].time_entry = DefaultTimeEntry],
                     p.pubs, <<>>, <<>>, FALSE)
            ELSE Ret(s, <<>>, <<>>, <<"Error sending assignment">>, FALSE)
    ELSE Quiet(s)

\* ViewCallbacksImpl.on_assign_user
on_assign_user(s, username, time_ms) ==
    IF s.current_view = "producer" /\ s.room_id \notin {None, <<>>} /\ username # <<>>
    THEN LET p == publish(s, Topic(s.room_id, username), AssignPayload(time_ms))
         IN IF p.ok THEN Ret(s, p.pubs, <<>>, <<>>, FALSE)
            ELSE Ret(s, <<>>, <<>>, <<"Error sending assignment">>, FALSE)
    ELSE Quiet(s)

\* ProducerView._on_assign_clicked
on_assign_clicked(s, username) ==
    LET time_ms == get_user_time(s, username)
    IN IF time_ms.r = "raise" THEN Raised(s)
       ELSE IF time_ms.r = "int" THEN on_assign_user(s, username, time_ms.v)
       ELSE Quiet(s)

\* ViewCallbacksImpl.on_remove_user
on_remove_user(s, username) ==
    IF s.current_view = "producer" /\ s.room_id \notin {None, <<>>} /\ username # <<>>
    THEN LET p == publish(s, Topic(s.room_id, username), LeavePayload)
         IN IF p.ok THEN Ret(remove_user(s, username), p.pubs, <<>>, <<>>, FALSE)
            ELSE Ret(s, <<>>, <<>>, <<"Error removing user">>, FALSE)
    ELSE Quiet(s)


(***************************************************************************)
(* The processes, and what the model lets the people and the broker do.    *)
(***************************************************************************)
Procs == {"p1", "p2", "p3"}

Users == {Alice, Bob}

\* what the operator may type into a user's "Time (ms)" entry

\* what a user may type into the observer view's entries
RoomTexts == {<<"a", "b", "c", "d", "e">>, RoomQ7XK2, <<"a", "b", "c", "d">>}
UsernameTexts == {Alice, Bob, <<"a", "b">>}

\* what other clients of the broker may publish: any payload on any topic
EnvTopics == {Topic(r, u) : r \in RoomIds, u \in Users} \cup {<<r>> : r \in RoomIds}
EnvPayloads ==
    {JoinPayload, LeavePayload, SyncReqPayload,
     TimeReqPayload(JStr(Alice), JInt(500), JInt(1000)),
     TimeReqPayload(JStr(Bob), JInt(1000), JInt(500)),
     AssignPayload(500),
     SyncResponsePayload(JFloat(119500, 1000)),
     InvalidJson, NonObjectJson, json_dumps(NoMembers), json_dumps(Action(A_FOO))}

NoTopic == <<>>

Init ==
    /\ app = [p \in Procs |-> InitApp]
    /\ inbox = [p \in Procs |-> <<>>]
    /\ last = [op |-> "init", p |-> "p1", topic |-> NoTopic, payload |-> InvalidJson,
               arg |-> None, main |-> None, pubs |-> <<>>, sink |-> <<>>, box |-> <<>>,
               exc |-> FALSE, caught |-> FALSE, time |-> <<>>, calls |-> <<>>]

Subscribed(s, topic) == s.link = "up" /\ \E pat \in s.subs : Matches(pat, topic)

\* One step of process p: callback op ran (on topic/payload, or on arg) and
\* gave back r.  The broker sends what was published to every connected
\* subscriber, the publisher included; a client that is not connected has no
\* loop running and nothing waiting.  popped: the step took inbox[p]'s head.
NewInbox(p, newapp, pubs, popped) ==
    LET Wanted(q) == LET Test(m) == Subscribed(newapp[q], m.topic) IN SelectSeq(pubs, Test)
    IN [q \in Procs |->
            IF newapp[q].link # "up" THEN <<>>
            ELSE (IF q = p /\ popped THEN Tail(inbox[q]) ELSE inbox[q]) \o Wanted(q)]

Apply(p, op, topic, payload, arg, r, popped) ==
    \E ret \in {r} :
      \E newapp \in {[app EXCEPT ![p] = ret.s]} :
        \E newinbox \in {NewInbox(p, newapp, ret.pubs, popped)} :
           /\ \A q \in Procs : Len(newinbox[q]) <= MaxInbox
           /\ app' = newapp
           /\ inbox' = newinbox
           /\ last' = [op |-> op, p |-> p, topic |-> topic, payload |-> payload, arg |-> arg,
                       main |-> get_main_observer(app[p]),
                       pubs |-> ret.pubs, sink |-> ret.sink, box |-> ret.box, exc |-> ret.exc,
                       caught |-> ret.caught, time |-> ret.time, calls |-> ret.calls]

Ui(p) == app[p].current_view # "destroyed"

(***************************************************************************)
(* What the user does.                                                     *)
(***************************************************************************)
\* CONNECT in the connection view (with a valid URL and port)
ConnectClicked(p) ==
    /\ Ui(p) /\ app[p].current_view = "connection" /\ app[p].link = "none"
    /\ \E ok \in BOOLEAN :
         Apply(p, "on_connect_requested", NoTopic, InvalidJson, None,
               on_connect_requested(app[p], ok), FALSE)

\* CONNECT AS PRODUCER / CONNECT AS OBSERVER
ModeSelected(p, modes) ==
    /\ Ui(p) /\ app[p].current_view = "mode_selection"
    /\ \E mode \in modes, room_id \in RoomIds :
         Apply(p, "on_mode_selected", NoTopic, InvalidJson, None,
               on_mode_selected(app[p], mode, room_id, FALSE), FALSE)

\* Back, in the producer or the observer view
BackClicked(p) ==
    /\ Ui(p) /\ app[p].current_view \in {"producer", "observer"}
    /\ \E kb \in BOOLEAN :
         Apply(p, "on_back_requested", NoTopic, InvalidJson, None,
               on_back_requested(app[p], kb), FALSE)

\* Back to Connection, in the mode selection view
DisconnectClicked(p) ==
    /\ Ui(p) /\ app[p].current_view = "mode_selection"
    /\ Apply(p, "on_disconnect_requested", NoTopic, InvalidJson, None,
             on_disconnect_requested(app[p], FALSE), FALSE)

\* the window is closed
WindowClosing(p) ==
    /\ Ui(p)
    /\ Apply(p, "on_window_closing", NoTopic, InvalidJson, None,
             on_window_closing(app[p]), FALSE)

\* a user row of the producer view that is on screen
Row(p, u) ==
    /\ Ui(p) /\ app[p].current_view = "producer"
    /\ u \in DOMAIN app[p].connected_users /\ app[p].connected_users[u].alive

\* the MAIN OBSERVER radio button of u's row: Tk sets the shared variable
RadioSelected(p) ==
    \E u \in Users :
        /\ Row(p, u)
        /\ Apply(p, "select_main_observer", NoTopic, InvalidJson, u,
                 Quiet([app[p] EXCEPT !.main_observer_var = u]), FALSE)

\* the operator edits the "Time (ms)" entry of u's row
TimeEntryEdited(p, texts) ==
    \E u \in Users, text \in texts :
        /\ Row(p, u)
        /\ app[p].connected_users[u].time_entry # text
        /\ Apply(p, "edit_time_entry", NoTopic, InvalidJson, u,
                 Quiet([app[p] EXCEPT !.connected_users[u].time_entry = text]), FALSE)

\* Assign, in u's row
AssignClicked(p) ==
    \E u \in Users :
        /\ Row(p, u)
        /\ Apply(p, "on_assign_clicked", NoTopic, InvalidJson, u,
                 on_assign_clicked(app[p], u), FALSE)

\* the remove button of u's row, wired to ProducerView.remove_user
RemoveClicked(p) ==
    \E u \in Users :
        /\ Row(p, u)
        /\ Apply(p, "remove_clicked", NoTopic, InvalidJson, u,
                 Quiet(remove_user(app[p], u)), FALSE)

\* the same button, when the loop's thread may run before remove_user is
\* through: remove_user finds u's row (its first statement) ...
RemoveBegins(p) ==
    \E u \in Users :
        /\ Row(p, u) /\ app[p].removing = None
        /\ Apply(p, "remove_user_begins", NoTopic, InvalidJson, u,
                 Quiet([app[p] EXCEPT !.removing = u]), FALSE)

\* ... and goes on with the roster as it is by then: connected_users[username]
\* raises KeyError when the row is gone
RemoveEnds(p) ==
    /\ Ui(p) /\ app[p].removing # None
    /\ \E u \in {app[p].removing}, s \in {[app[p] EXCEPT !.removing = None]} :
         Apply(p, "remove_user_ends", NoTopic, InvalidJson, u,
               IF u \in DOMAIN s.connected_users THEN Quiet(remove_user(s, u)) ELSE Raised(s),
               FALSE)

\* the view callback on_remove_user, for a user of the roster
RemoveUserRequested(p) ==
    \E u \in Users :
        /\ Row(p, u)
        /\ Apply(p, "on_remove_user", NoTopic, InvalidJson, u,
                 on_remove_user(app[p], u), FALSE)

\* JOIN, in the observer view
JoinClicked(p, room_texts, username_texts) ==
    /\ Ui(p) /\ app[p].current_view = "observer"
    /\ \E room_text \in room_texts, username_text \in username_texts :
         Apply(p, "on_join_clicked", <<room_text, username_text>>, InvalidJson, None,
               on_join_clicked(app[p], room_text, username_text), FALSE)

\* SYNC, once a join has enabled the button
SyncClicked(p) ==
    /\ Ui(p) /\ app[p].current_view = "observer" /\ app[p].sync_btn = "normal"
    /\ Apply(p, "on_sync_requested", NoTopic, InvalidJson, None,
             on_sync_requested(app[p]), FALSE)

\* alt+ctrl+t: ObserverView._on_hotkey_sync
HotkeyPressed(p) ==
    /\ Ui(p) /\ app[p].hotkey
    /\ Apply(p, "on_hotkey_sync", NoTopic, InvalidJson, None, on_hotkey_sync(app[p]), FALSE)

(***************************************************************************)
(* What the timer and the network loop do.                                 *)
(***************************************************************************)
\* the root.after(1000, ...) of a successful connection
TimerFired(p) ==
    /\ Ui(p) /\ app[p].timer
    /\ \E kb \in BOOLEAN :
         LET v == show_view([app[p] EXCEPT !.timer = FALSE], "mode_selection", None, kb)
         IN Apply(p, "timer", NoTopic, InvalidJson, None,
                  Ret(v.s, <<>>, <<>>, <<>>, ~v.ok), FALSE)

\* CONNACK: rc = 0, or a refusal
Connected(p) ==
    /\ Ui(p) /\ app[p].link = "connecting"
    /\ \E rc \in {0, 5} :
         Apply(p, "on_connect", NoTopic, InvalidJson, None, Quiet(on_connect(app[p], rc)), FALSE)

\* the connection is lost
ConnectionLost(p) ==
    /\ Ui(p) /\ app[p].link = "up"
    /\ Apply(p, "on_disconnect", NoTopic, InvalidJson, None, Quiet(on_disconnect(app[p])), FALSE)

\* the states of the replay API to tell apart when payload is handled: only
\* a TIME_REQ and a SYNC_RESPONSE make a view call it
Asked(payload, worlds) ==
    IF payload.json = "object"
       /\ DictGet(payload.obj, "action", JNull) \in {JStr(A_TIME_REQ), JStr(A_SYNC_RESPONSE)}
    THEN worlds
    ELSE {CHOOSE w \in worlds : w.up}

\* the loop hands the next message to _on_message
Deliver(p, worlds) ==
    /\ Ui(p) /\ inbox[p] # <<>>
    /\ \E w \in Asked(Head(inbox[p]).payload, worlds) :
         Apply(p, "on_message", Head(inbox[p]).topic, Head(inbox[p]).payload, None,
               on_message(app[p], Head(inbox[p]).topic, Head(inbox[p]).payload, w), TRUE)

Received(p) == Deliver(p, Worlds)

\* a message another client published arrives
EnvDeliver(p, topics, payloads, worlds) ==
    /\ Ui(p)
    /\ \E topic \in topics, payload \in payloads :
         /\ Subscribed(app[p], topic)
         /\ \E w \in Asked(payload, worlds) :
                Apply(p, "on_message", topic, payload, None,
                      on_message(app[p], topic, payload, w), FALSE)

(***************************************************************************)
(* One application, with the rest of the world publishing anything.  The   *)
(* broker returns the application's own publishes to it when it holds a    *)
(* matching subscription; the loop handles such a message before the user  *)
(* acts again (a later arrival of the same message is one of the           *)
(* deliveries of EnvDeliver).                                              *)
(***************************************************************************)
Self == "p1"

\* the replay API is not called in the producer role
OneWorld == {[up |-> TRUE, t |-> 120000]}

\* the payloads the producer tells apart, and one of each kind it does not
ProducerPayloads ==
    {JoinPayload, LeavePayload, SyncReqPayload,
     TimeReqPayload(JStr(Alice), JInt(500), JInt(1000)),
     InvalidJson, NonObjectJson, json_dumps(NoMembers), json_dumps(Action(A_FOO))}

Idle(p) == inbox[p] = <<>>

\* SpecProducer: the application takes the producer role only
NextProducer ==
    \/ Idle(Self) /\ ConnectClicked(Self)
    \/ Idle(Self) /\ ModeSelected(Self, {"producer"})
    \/ Idle(Self) /\ BackClicked(Self)
    \/ Idle(Self) /\ DisconnectClicked(Self)
    \/ Idle(Self) /\ WindowClosing(Self)
    \/ Idle(Self) /\ TimerFired(Self)
    \/ Idle(Self) /\ Connected(Self)
    \/ Idle(Self) /\ ConnectionLost(Self)
    \/ Idle(Self) /\ RadioSelected(Self)
    \/ Idle(Self) /\ TimeEntryEdited(Self, EntryTexts)
    \/ Idle(Self) /\ AssignClicked(Self)
    \/ Idle(Self) /\ RemoveClicked(Self)
    \/ Idle(Self) /\ RemoveUserRequested(Self)
    \/ Idle(Self) /\ EnvDeliver(Self, EnvTopics, ProducerPayloads, OneWorld)
    \/ Received(Self)

SpecProducer == Init /\ [][NextProducer]_vars

\* SpecObserver: the application takes the observer role only
NextObserver ==
    \/ Idle(Self) /\ ConnectClicked(Self)
    \/ Idle(Self) /\ ModeSelected(Self, {"observer"})
    \/ Idle(Self) /\ BackClicked(Self)
    \/ Idle(Self) /\ DisconnectClicked(Self)
    \/ Idle(Self) /\ WindowClosing(Self)
    \/ Idle(Self) /\ TimerFired(Self)
    \/ Idle(Self) /\ Connected(Self)
    \/ Idle(Self) /\ ConnectionLost(Self)
    \/ Idle(Self) /\ JoinClicked(Self, RoomTexts, UsernameTexts)
    \/ Idle(Self) /\ SyncClicked(Self)
    \/ Idle(Self) /\ HotkeyPressed(Self)
    \/ Idle(Self) /\ EnvDeliver(Self, EnvTopics, EnvPayloads, Worlds)
    \/ Received(Self)

SpecObserver == Init /\ [][NextObserver]_vars

\* payloads that are not a message: not JSON, JSON that is not an object, an
\* object without "action", an action that is no protocol action
Malformed ==
    {InvalidJson, NonObjectJson, json_dumps(NoMembers), json_dumps(Action(A_FOO)),
     json_dumps("action" :> JInt(7))}

\* SpecBoth: the application takes both roles, one after the other, and
\* malformed payloads arrive among the JOINs, the requests and the answers,
\* some of these without the members their action should come with
NextBoth ==
    \/ Idle(Self) /\ ConnectClicked(Self)
    \/ Idle(Self) /\ ModeSelected(Self, {"producer", "observer"})
    \/ Idle(Self) /\ BackClicked(Self)
    \/ Idle(Self) /\ TimerFired(Self)
    \/ Idle(Self) /\ Connected(Self)
    \/ Idle(Self) /\ RadioSelected(Self)
    \/ Idle(Self) /\ JoinClicked(Self, {RoomQ7XK2}, {Alice})
    \/ Idle(Self) /\ EnvDeliver(Self, EnvTopics,
                                Malformed \cup {JoinPayload, SyncResponsePayload(JFloat(119500, 1000)),
                                                TimeReqPayload(JStr(Bob), JInt(1000), JInt(500)),
                                                json_dumps(Action(A_TIME_REQ)),
                                                json_dumps(Action(A_TIME_REQ) @@ "requester" :> JStr(Bob)),
                                                json_dumps(Action(A_SYNC_RESPONSE))},
                                Worlds)
    \/ Received(Self)

SpecBoth == Init /\ [][NextBoth]_vars

(***************************************************************************)
(* One application in the observer role, whose user types all sorts of     *)
(* texts into the room entry or into the username entry of the join form,  *)
(* connected or not.  Nobody else publishes.                               *)
(***************************************************************************)
\* the joins the user makes on one connection
MaxJoins == 2

Name20 == [i \in 1..20 |-> "x"]
Name21 == [i \in 1..21 |-> "x"]

\* room entry: lower case, mixed case in whitespace, too short, too long, a
\* hyphen, a letter outside ASCII, nothing
JoinRoomTexts ==
    {<<"a", "b", "c", "d", "e">>, <<" ", "Q", "7", "x", "k", "2", " ">>,
     <<"a", "b", "c", "d">>, <<"a", "b", "c", "d", "e", "f">>,
     <<"a", "b", "-", "d", "e">>, <<"é", "c", "o", "l", "1">>, <<>>}

\* username entry: letters, digits and a hyphen, the shortest, too short, the
\* longest, too long, a space inside, a letter outside ASCII, nothing
JoinUsernameTexts ==
    {<<"a", "b", "-", "1", "2">>, <<"a", "-", "1">>, <<"a", "b">>, Name20, Name21,
     <<"b", "a", "d", " ", "u", "s", "e", "r">>, <<"é", "r", "i", "c">>, <<>>}

NextJoin ==
    \/ Idle(Self) /\ ConnectClicked(Self)
    \/ Idle(Self) /\ Connected(Self)
    \/ Idle(Self) /\ TimerFired(Self)
    \/ Idle(Self) /\ ModeSelected(Self, {"observer"})
    \/ Idle(Self) /\ ConnectionLost(Self)
    \/ Idle(Self) /\ BackClicked(Self)
    \/ Idle(Self) /\ DisconnectClicked(Self)
    \/ Idle(Self) /\ Cardinality(app[Self].subs) < MaxJoins
                   /\ JoinClicked(Self, JoinRoomTexts, {<<"a", "b", "-", "1", "2">>})
    \/ Idle(Self) /\ Cardinality(app[Self].subs) < MaxJoins
                   /\ JoinClicked(Self, {<<"a", "b", "c", "d", "e">>}, JoinUsernameTexts)
    \/ Received(Self)

SpecJoin == Init /\ [][NextJoin]_vars

(***************************************************************************)
(* One application in the producer role, with its two threads told apart:  *)
(* Tk's main loop runs the operator's commands, one at a time, and the     *)
(* MQTT client's loop (loop_start) runs _on_message.  Nothing in the code  *)
(* makes one wait for the other, so a delivery may be handled while a      *)
(* command is under way.                                                   *)
(***************************************************************************)
NextThreads ==
    \/ app[Self].removing = None /\ ConnectClicked(Self)
    \/ app[Self].removing = None /\ Connected(Self)
    \/ app[Self].removing = None /\ TimerFired(Self)
    \/ app[Self].removing = None /\ ModeSelected(Self, {"producer"})
    \/ app[Self].removing = None /\ RadioSelected(Self)
    \/ app[Self].removing = None /\ AssignClicked(Self)
    \/ RemoveBegins(Self)
    \/ RemoveEnds(Self)
    \/ EnvDeliver(Self, EnvTopics, {JoinPayload, LeavePayload, SyncReqPayload}, OneWorld)
    \/ Received(Self)

SpecThreads == Init /\ [][NextThreads]_vars

(***************************************************************************)
(* One application in the producer role whose operator types any text into *)
(* the "Time (ms)" entries, a negative number included, while users join   *)
(* and ask for syncs.                                                      *)
(***************************************************************************)
NextDelays ==
    \/ Idle(Self) /\ ConnectClicked(Self)
    \/ Idle(Self) /\ Connected(Self)
    \/ Idle(Self) /\ TimerFired(Self)
    \/ Idle(Self) /\ ModeSelected(Self, {"producer"})
    \/ Idle(Self) /\ RadioSelected(Self)
    \/ Idle(Self) /\ TimeEntryEdited(Self, EntryTexts \cup {NegativeEntry})
    \/ Idle(Self) /\ AssignClicked(Self)
    \/ Idle(Self) /\ EnvDeliver(Self, EnvTopics, {JoinPayload, SyncReqPayload}, OneWorld)
    \/ Received(Self)

SpecDelays == Init /\ [][NextDelays]_vars

(***************************************************************************)
(* One application in the observer role whose user presses JOIN only while *)
(* the transport is not connected (the connection was lost, or is not up   *)
(* yet), and leaves in every way there is.  No JOIN is ever published and  *)
(* no subscription is ever made, so nothing is ever delivered.             *)
(***************************************************************************)
NextOffline ==
    \/ Idle(Self) /\ ConnectClicked(Self)
    \/ Idle(Self) /\ Connected(Self)
    \/ Idle(Self) /\ TimerFired(Self)
    \/ Idle(Self) /\ ModeSelected(Self, {"observer"})
    \/ Idle(Self) /\ ConnectionLost(Self)
    \/ Idle(Self) /\ NotConnected(app[Self]) /\ JoinClicked(Self, RoomTexts, UsernameTexts)
    \/ Idle(Self) /\ BackClicked(Self)
    \/ Idle(Self) /\ DisconnectClicked(Self)
    \/ Idle(Self) /\ WindowClosing(Self)

SpecOffline == Init /\ [][NextOffline]_vars

(***************************************************************************)
(* Three applications on one broker: p1 takes the producer role, p2 joins  *)
(* as alice and p3 as bob.  Nobody else publishes.  The users act when     *)
(* nothing is waiting in any loop; each loop keeps handing over what is    *)
(* waiting for it, and the time source is up.                              *)
(***************************************************************************)
Producer == "p1"
AliceApp == "p2"
BobApp == "p3"
AllIdle == \A p \in Procs : inbox[p] = <<>>
Answering == {w \in Worlds : w.up}
RoomText == <<"a", "b", "c", "d", "e">>

NextE2E ==
    \/ \E p \in Procs : AllIdle /\ ConnectClicked(p)
    \/ \E p \in Procs : AllIdle /\ Connected(p)
    \/ \E p \in Procs : AllIdle /\ TimerFired(p)
    \/ AllIdle /\ ModeSelected(Producer, {"producer"})
    \/ \E p \in {AliceApp, BobApp} : AllIdle /\ ModeSelected(p, {"observer"})
    \/ AllIdle /\ JoinClicked(AliceApp, {RoomText}, {Alice})
    \/ AllIdle /\ JoinClicked(BobApp, {RoomText}, {Bob})
    \/ AllIdle /\ RadioSelected(Producer)
    \/ AllIdle /\ TimeEntryEdited(Producer, {<<"5", "0", "0">>})
    \/ AllIdle /\ SyncClicked(AliceApp)
    \/ \E p \in Procs : Deliver(p, Answering)

SpecE2E ==
    Init /\ [][NextE2E]_vars /\ \A p \in Procs : WF_vars(Deliver(p, Answering))

(***************************************************************************)
(* The same three applications, with the producer's operator selecting the *)
(* main observer and removing users at any moment, while messages are on   *)
(* their way.                                                              *)
(***************************************************************************)
NextInFlight ==
    \/ \E p \in Procs : AllIdle /\ ConnectClicked(p)
    \/ \E p \in Procs : AllIdle /\ Connected(p)
    \/ \E p \in Procs : AllIdle /\ TimerFired(p)
    \/ AllIdle /\ ModeSelected(Producer, {"producer"})
    \/ \E p \in {AliceApp, BobApp} : AllIdle /\ ModeSelected(p, {"observer"})
    \/ AllIdle /\ JoinClicked(AliceApp, {RoomText}, {Alice})
    \/ AllIdle /\ JoinClicked(BobApp, {RoomText}, {Bob})
    \/ AllIdle /\ SyncClicked(AliceApp)
    \/ RadioSelected(Producer)
    \/ RemoveClicked(Producer)
    \/ \E p \in Procs : Deliver(p, Answering)

SpecInFlight == Init /\ [][NextInFlight]_vars

(***************************************************************************)
(* The same three applications with everything their users can do in a     *)
(* room: the observers join, leave (Back) and come back; p3's user may     *)
(* join as alice while nobody else has, and as bob later, so that no two   *)
(* applications hold one username at a time; the producer's operator       *)
(* selects, assigns and removes; p2's user alone asks for syncs.  Users    *)
(* act when nothing is waiting in any loop, and each loop keeps handing    *)
(* over what is waiting for it.                                            *)
(***************************************************************************)
NextRoom ==
    \/ \E p \in Procs : AllIdle /\ ConnectClicked(p)
    \/ \E p \in Procs : AllIdle /\ Connected(p)
    \/ \E p \in Procs : AllIdle /\ TimerFired(p)
    \/ AllIdle /\ ModeSelected(Producer, {"producer"})
    \/ \E p \in {AliceApp, BobApp} : AllIdle /\ ModeSelected(p, {"observer"})
    \/ AllIdle /\ app[BobApp].current_username # Alice
               /\ JoinClicked(AliceApp, {RoomText}, {Alice})
    \/ AllIdle /\ app[AliceApp].current_username # Alice
               /\ JoinClicked(BobApp, {RoomText}, {Alice})
    \/ AllIdle /\ JoinClicked(BobApp, {RoomText}, {Bob})
    \/ \E p \in {AliceApp, BobApp} : AllIdle /\ BackClicked(p)
    \/ AllIdle /\ RadioSelected(Producer)
    \/ AllIdle /\ AssignClicked(Producer)
    \/ AllIdle /\ RemoveUserRequested(Producer)
    \/ AllIdle /\ SyncClicked(AliceApp)
    \/ \E p \in Procs : Deliver(p, Answering)

SpecRoom ==
    Init /\ [][NextRoom]_vars /\ \A p \in Procs : WF_vars(Deliver(p, Answering))

(***************************************************************************)
(* Properties of the producer role (SpecProducer).                         *)
(***************************************************************************)
S == app[Self]

\* the action of a payload, JNull when it has none
ActionOf(payload) ==
    IF payload.json = "object" THEN DictGet(payload.obj, "action", JNull) ELSE JNull

\* the step just taken was the delivery of payload to the producer view
ProducerGot(payload) ==
    /\ last'.op = "on_message" /\ last'.p = Self /\ last'.payload = payload
    /\ S.current_view = "producer"

\* the last segment of the topic of the step just taken
TopicUser == last'.topic[Len(last'.topic)]

\* the roster entries the view reports as main observer
MainObservers(s) ==
    {u \in DOMAIN s.connected_users : get_all_users_config(s)[u].is_main_observer}

\* C1: in every reachable producer state at most one roster entry is the
\* main observer, and right after the operator selects u the main observers
\* are exactly {u}: the previous holder is cleared in the same step.
C1_AtMostOneMainObserver ==
    /\ Cardinality(MainObservers(S)) <= 1
    /\ last.op = "select_main_observer" => MainObservers(S) = {last.arg}

\* C1's case: with both users in the roster, the selection moved from one to the other
C1_Witness ==
    /\ last.op = "select_main_observer"
    /\ DOMAIN S.connected_users = Users
    /\ last.main \in Users \ {last.arg}
    /\ MainObservers(S) = {last.arg}

\* the delay a "Time (ms)" entry declares, for the entries that hold a number
DelayOf == (DefaultTimeEntry :> 1000) @@ (<<"5", "0", "0">> :> 500)

\* d is the delay the roster holds for u (any d when u's row holds no number)
HoldsDelay(s, u, d) ==
    (s.connected_users[u].alive /\ s.connected_users[u].time_entry \in DOMAIN DelayOf)
        => d = DelayOf[s.connected_users[u].time_entry]

\* C2: a SYNC_REQ received on {room}/{R}, R in the roster, while a main
\* observer M is selected, publishes exactly one message: TIME_REQ{R, dR, dM}
\* to {room}/{M}, dR and dM the delays the roster holds; the roster is unchanged.
C2_SyncReqRelayed ==
    [][(/\ ProducerGot(SyncReqPayload)
        /\ Len(last'.topic) = 2 /\ last'.topic[1] = S.room_id
        /\ TopicUser \in DOMAIN S.connected_users
        /\ get_main_observer(S) # None)
       => /\ \E dR, dM \in Range(DelayOf) :
                /\ HoldsDelay(S, TopicUser, dR)
                /\ HoldsDelay(S, get_main_observer(S), dM)
                /\ last'.pubs = <<Msg(Topic(S.room_id, get_main_observer(S)),
                                      TimeReqPayload(JStr(TopicUser), JInt(dR), JInt(dM)))>>
          /\ app'[Self].connected_users = S.connected_users
          /\ app'[Self].main_observer_var = S.main_observer_var]_vars

\* C2's failing case: the requester's roster entry outlived the producer view
\* that made its row; reading its delay raised, and no TIME_REQ went out
C2_Witness ==
    /\ last.op = "on_message" /\ last.payload = SyncReqPayload
    /\ S.current_view = "producer" /\ Len(last.topic) = 2 /\ last.topic[1] = S.room_id
    /\ last.topic[2] \in DOMAIN S.connected_users
    /\ last.main # None /\ get_main_observer(S) = last.main
    /\ last.caught /\ last.pubs = <<>>

\* C3: a SYNC_REQ received while no main observer is selected publishes
\* nothing, raises nothing, shows no error and changes nothing.
C3_NoMainObserverDrops ==
    [][(ProducerGot(SyncReqPayload) /\ get_main_observer(S) = None)
       => /\ last'.pubs = <<>> /\ last'.box = <<>> /\ ~last'.exc /\ ~last'.caught
          /\ app' = app]_vars

\* C3's case: a SYNC_REQ came from a roster member and no main observer was selected
C3_Witness ==
    /\ last.op = "on_message" /\ last.payload = SyncReqPayload
    /\ S.current_view = "producer" /\ Len(last.topic) = 2
    /\ last.topic[2] \in DOMAIN S.connected_users
    /\ Cardinality(DOMAIN S.connected_users) = 2
    /\ last.main = None /\ last.pubs = <<>>

\* C6: after a JOIN for u is delivered the roster has the entry of u, and a
\* JOIN for a u that is in the roster already changes nothing and publishes nothing.
C6_JoinIdempotent ==
    [][(ProducerGot(JoinPayload) /\ Len(last'.topic) >= 2)
       => /\ TopicUser \in DOMAIN app'[Self].connected_users
          /\ last'.pubs = <<>>
          /\ TopicUser \in DOMAIN S.connected_users => app' = app]_vars

\* C6's case: a second JOIN of a user whose delay was edited and who is main observer
C6_Witness ==
    /\ last.op = "on_message" /\ last.payload = JoinPayload
    /\ S.current_view = "producer" /\ Len(last.topic) = 2
    /\ last.main = last.topic[2] /\ get_main_observer(S) = last.topic[2]
    /\ S.connected_users[last.topic[2]].time_entry = <<"5", "0", "0">>
    /\ DOMAIN S.connected_users = Users

\* C7: a LEAVE for a u that is not in the roster changes nothing and
\* publishes nothing.
C7_LeaveAbsentNoOp ==
    [][(/\ ProducerGot(LeavePayload) /\ Len(last'.topic) >= 2
        /\ TopicUser \notin DOMAIN S.connected_users)
       => (app' = app /\ last'.pubs = <<>>)]_vars

\* C7's case: a LEAVE for an absent user, with the other user in the roster and main observer
C7_Witness ==
    /\ last.op = "on_message" /\ last.payload = LeavePayload
    /\ S.current_view = "producer" /\ Len(last.topic) = 2
    /\ last.topic[2] \notin DOMAIN S.connected_users
    /\ last.main # None /\ get_main_observer(S) = last.main
    /\ S.connected_users[last.main].time_entry = <<"5", "0", "0">>

\* C10: after the operator removes u, u has no roster entry, and when the
\* transport was connected exactly one LEAVE went to {room}/{u}.
C10_RemoveUserPublishesLeave ==
    last.op \in {"remove_clicked", "on_remove_user"}
        => /\ last.arg \notin DOMAIN S.connected_users
           /\ ~NotConnected(S) => last.pubs = <<Msg(Topic(S.room_id, last.arg), LeavePayload)>>

\* C10's failing case: the row's remove button took the user out of the
\* roster of a connected producer, and no LEAVE went out
C10_Witness ==
    /\ last.op = "remove_clicked" /\ ~NotConnected(S) /\ S.current_view = "producer"
    /\ last.arg \notin DOMAIN S.connected_users
    /\ last.pubs = <<>>

\* C11: when the producer role is entered the room is new: a room id of five
\* characters of A-Z0-9, an empty roster and no main observer; nothing of an
\* earlier room is in it.
C11_RosterDestroyed ==
    (last.op = "on_mode_selected" /\ S.current_view = "producer")
        => /\ S.room_id \in RoomIds
           /\ DOMAIN S.connected_users = {}
           /\ get_main_observer(S) = None

\* C11's failing case: the producer role was entered again and the roster
\* still holds bob, who joined the earlier room; his row is gone
C11_Witness ==
    /\ last.op = "on_mode_selected" /\ S.current_view = "producer"
    /\ Bob \in DOMAIN S.connected_users /\ ~S.connected_users[Bob].alive
    /\ get_main_observer(S) = None

\* C12: a JOIN, LEAVE or SYNC_REQ received by the producer on a topic that is
\* not {room}/{user} of its current room changes no roster entry and
\* publishes nothing.
C12_OtherRoomIgnored ==
    [][(/\ last'.op = "on_message" /\ last'.p = Self /\ S.current_view = "producer"
        /\ last'.payload \in {JoinPayload, LeavePayload, SyncReqPayload}
        /\ ~(Len(last'.topic) = 2 /\ last'.topic[1] = S.room_id))
       => /\ app'[Self].connected_users = S.connected_users
          /\ app'[Self].main_observer_var = S.main_observer_var
          /\ last'.pubs = <<>>]_vars

\* C12's failing case: a SYNC_REQ on a topic of another room, which the
\* process hosted earlier, made the producer publish a TIME_REQ in its
\* current room
C12_Witness ==
    /\ last.op = "on_message" /\ last.p = Self /\ last.payload = SyncReqPayload
    /\ S.current_view = "producer" /\ Len(last.topic) = 2 /\ last.topic[1] # S.room_id
    /\ RoomWildcard(last.topic[1]) \in S.subs
    /\ Len(last.pubs) = 1 /\ last.pubs[1].topic = Topic(S.room_id, last.main)
    /\ last.pubs[1].payload.obj["action"] = JStr(A_TIME_REQ)

\* C27: a SYNC_REQ received on {anything}/{R}, R not in the roster, while a
\* main observer M is selected and the transport is connected, publishes
\* exactly one message: TIME_REQ{R, 1000, dM} to {room}/{M}, dM the delay
\* the roster holds for M.
C27_NonMemberRelayed ==
    [][(/\ ProducerGot(SyncReqPayload)
        /\ Len(last'.topic) = 2
        /\ TopicUser \notin DOMAIN S.connected_users
        /\ get_main_observer(S) # None
        /\ ~NotConnected(S))
       => \E dM \in Range(DelayOf) \cup {1000} :
            /\ get_main_observer(S) \in DOMAIN S.connected_users
            /\ HoldsDelay(S, get_main_observer(S), dM)
            /\ last'.pubs = <<Msg(Topic(S.room_id, get_main_observer(S)),
                                  TimeReqPayload(JStr(TopicUser), JInt(1000), JInt(dM)))>>]_vars

\* C27's case: bob is not in the roster, alice is the main observer with 500
\* in her row, and bob's SYNC_REQ was relayed with requester_delay 1000
C27_Witness ==
    /\ last.op = "on_message" /\ last.p = Self /\ S.current_view = "producer"
    /\ last.payload = SyncReqPayload /\ last.topic = Topic(S.room_id, Bob)
    /\ Bob \notin DOMAIN S.connected_users /\ last.main = Alice
    /\ last.pubs = <<Msg(Topic(S.room_id, Alice),
                         TimeReqPayload(JStr(Bob), JInt(1000), JInt(500)))>>

\* the delay the producer holds for u: what u's entry says, 1000 when it
\* says no number or when u has no row
DeclaredDelay(s, u) ==
    IF u \notin DOMAIN s.connected_users THEN 1000
    ELSE IF s.connected_users[u].time_entry \in DOMAIN DelayOf
    THEN DelayOf[s.connected_users[u].time_entry]
    ELSE 1000

\* C31: every TIME_REQ the producer publishes carries the delays it holds
\* for the requester and for the main observer at that moment, whatever was
\* assigned before; and Assign in u's row publishes ASSIGN{time_ms: the delay
\* held for u} and changes no field of the producer.
C31_DelaysAreLocal ==
    [][last'.p = Self
       => /\ \A i \in DOMAIN last'.pubs :
                ActionOf(last'.pubs[i].payload) = JStr(A_TIME_REQ)
                    => /\ ProducerGot(SyncReqPayload) /\ Len(last'.pubs) = 1
                       /\ last'.pubs[i] =
                            Msg(Topic(S.room_id, get_main_observer(S)),
                                TimeReqPayload(JStr(TopicUser),
                                    JInt(DeclaredDelay(S, TopicUser)),
                                    JInt(DeclaredDelay(S, get_main_observer(S)))))
          /\ last'.op = "on_assign_clicked"
                => /\ app' = app
                   /\ ~NotConnected(S)
                        => last'.pubs = <<Msg(Topic(S.room_id, last'.arg),
                                              AssignPayload(DeclaredDelay(S, last'.arg)))>>]_vars

\* C31's case: with 500 typed into alice's row and bob, the main observer,
\* at the default, alice's SYNC_REQ was relayed with 500 and 1000
C31_Witness ==
    /\ last.op = "on_message" /\ last.p = Self /\ last.payload = SyncReqPayload
    /\ S.current_view = "producer" /\ DOMAIN S.connected_users = Users
    /\ S.connected_users[Alice].time_entry = <<"5", "0", "0">>
    /\ last.pubs = <<Msg(Topic(S.room_id, Bob),
                         TimeReqPayload(JStr(Alice), JInt(500), JInt(1000)))>>

\* C33: the selected main observer, if any, is a user of the roster, in
\* every reachable state of the producer, and while the producer view is
\* shown that user's row is on screen; right after a user was removed (by
\* LEAVE, by the remove button or by on_remove_user) that user is not the
\* main observer; and every TIME_REQ goes to {room}/{M} for a user M of the
\* roster.
C33_MainObserverInRoster ==
    /\ get_main_observer(S) # None => get_main_observer(S) \in DOMAIN S.connected_users
    /\ (S.current_view = "producer" /\ get_main_observer(S) # None)
          => S.connected_users[get_main_observer(S)].alive
    /\ ((\/ last.op \in {"remove_clicked", "on_remove_user"}
         \/ (last.op = "on_message" /\ last.payload = LeavePayload /\ Len(last.topic) >= 2))
        /\ last.p = Self /\ S.current_view = "producer")
          => LET u == IF last.op = "on_message" THEN last.topic[Len(last.topic)] ELSE last.arg
             IN u \notin DOMAIN S.connected_users => get_main_observer(S) # u
    /\ \A i \in DOMAIN last.pubs :
          (last.p = Self /\ ActionOf(last.pubs[i].payload) = JStr(A_TIME_REQ))
             => \E M \in DOMAIN S.connected_users :
                    last.pubs[i].topic = Topic(S.room_id, M)

\* C33's case: alice was the main observer when her LEAVE arrived: she is
\* out of the roster and nobody is selected
C33_Witness ==
    /\ last.op = "on_message" /\ last.p = Self /\ last.payload = LeavePayload
    /\ S.current_view = "producer" /\ last.main = Alice
    /\ last.topic[Len(last.topic)] = Alice
    /\ Alice \notin DOMAIN S.connected_users /\ get_main_observer(S) = None

\* C22: a delivery is never handled while an operator command is under way
\* on the roster: no _on_message step is taken between the two halves of a
\* remove_user.
C22_Serialized ==
    [][last'.op = "on_message" => S.removing = None]_vars

\* C22's failing case: the operator pressed the remove button of alice's row,
\* remove_user found the row, the loop's thread handled alice's LEAVE and
\* removed it, and remove_user went on: KeyError in the Tk callback
C22_Witness ==
    /\ last.op = "remove_user_ends" /\ last.arg = Alice /\ last.exc
    /\ Alice \notin DOMAIN S.connected_users

\* v is a JSON integer that is not negative
NonNegativeInt(v) == v.t = "int" /\ v.n >= 0

\* C28: whatever the operator types into the delay entries, the
\* requester_delay and main_observer_delay of every TIME_REQ and the time_ms
\* of every ASSIGN the producer publishes are integers >= 0.
C28_DelaysNonNegative ==
    \A i \in DOMAIN last.pubs :
        LET m == last.pubs[i].payload
        IN /\ ActionOf(m) = JStr(A_TIME_REQ)
                => /\ NonNegativeInt(m.obj["requester_delay"])
                   /\ NonNegativeInt(m.obj["main_observer_delay"])
           /\ ActionOf(m) = JStr(A_ASSIGN) => NonNegativeInt(m.obj["time_ms"])

\* C28's failing case: the operator typed -5 into alice's entry, alice asked
\* for a sync with bob as main observer, and the TIME_REQ says -5
C28_Witness ==
    /\ last.op = "on_message" /\ last.p = Self /\ last.payload = SyncReqPayload
    /\ Alice \in DOMAIN S.connected_users
    /\ S.connected_users[Alice].time_entry = NegativeEntry
    /\ last.pubs = <<Msg(Topic(S.room_id, Bob),
                         TimeReqPayload(JStr(Alice), JInt(0 - 5), JInt(1000)))>>

\* C35: when the operator's removal of u and the handling of a LEAVE or JOIN
\* on u's topic interleave, no exception is raised in the Tk callback or in
\* the loop's callback, and the roster stays consistent: the main observer,
\* if any, is a user of the roster.
C35_InterleavedRemovalSafe ==
    /\ last.op = "remove_user_ends" => ~last.exc
    /\ (last.op = "on_message" /\ last.payload \in {JoinPayload, LeavePayload})
          => (~last.exc /\ ~last.caught)
    /\ get_main_observer(S) # None => get_main_observer(S) \in DOMAIN S.connected_users

\* C35's failing case: the operator's removal of bob found his row, bob's
\* LEAVE was handled, and the removal went on: the roster is consistent (bob
\* is out and nobody is selected), but remove_user raised KeyError
C35_Witness ==
    /\ last.op = "remove_user_ends" /\ last.arg = Bob /\ last.main = None /\ last.exc
    /\ Bob \notin DOMAIN S.connected_users /\ get_main_observer(S) = None
    /\ S.removing = None

(***************************************************************************)
(* Properties of the observer role (SpecObserver).                         *)
(***************************************************************************)
\* the observer view holds a session
Joined(s) == s.current_room_id \notin {None, <<>>} /\ s.current_username \notin {None, <<>>}

\* the delays the TIME_REQs of the scenarios carry
Delays == Range(DelayOf)

\* C4: a joined observer in room `room` that receives TIME_REQ{R, dR, dM}
\* while the time source answers T publishes exactly one message: a
\* SYNC_RESPONSE to {room}/{R} whose value v satisfies v * 1000 = T + dR - dM.
C4_TimeReqAnswered ==
    [][(/\ last'.op = "on_message" /\ last'.p = Self /\ S.current_view = "observer"
        /\ Joined(S) /\ last'.time # <<>>
        /\ last'.payload \in {TimeReqPayload(JStr(R), JInt(dR), JInt(dM)) :
                                R \in Users, dR, dM \in Delays})
       => /\ Len(last'.pubs) = 1
          /\ last'.pubs[1].topic = Topic(S.current_room_id, last'.payload.obj["requester"].s)
          /\ last'.pubs[1].payload.json = "object"
          /\ DOMAIN last'.pubs[1].payload.obj = {"action", "value"}
          /\ last'.pubs[1].payload.obj["action"] = JStr(A_SYNC_RESPONSE)
          /\ NumEquals(last'.pubs[1].payload.obj["value"],
                       last'.time[1] + last'.payload.obj["requester_delay"].n
                                     - last'.payload.obj["main_observer_delay"].n,
                       1000)]_vars

\* C4's case: a joined observer answered a TIME_REQ with a value that is not
\* a whole number of seconds
C4_Witness ==
    /\ last.op = "on_message" /\ last.p = Self /\ S.current_view = "observer" /\ Joined(S)
    /\ last.payload = TimeReqPayload(JStr(Alice), JInt(500), JInt(1000))
    /\ last.time = <<90250>>
    /\ last.pubs = <<Msg(Topic(S.current_room_id, Alice), SyncResponsePayload(JFloat(89750, 1000)))>>

\* C9: a successful join leaves the session JOINED, and after Back, a
\* disconnect request, a window close or a transport disconnect the session
\* is NOT_JOINED: its room id and username are cleared.
C9_SessionClearedOnLeave ==
    /\ (last.op = "on_join_clicked" /\ last.box = <<>>) => Joined(S)
    /\ last.op \in {"on_back_requested", "on_disconnect_requested", "on_window_closing",
                    "on_disconnect"}
          => (S.current_room_id = None /\ S.current_username = None)

\* C9's failing case: Back sent the LEAVE of a joined observer and the
\* session is still held
C9_Witness ==
    /\ last.op = "on_back_requested" /\ S.current_view = "mode_selection"
    /\ last.pubs = <<Msg(Topic(S.current_room_id, S.current_username), LeavePayload)>>
    /\ Joined(S)

\* C13: a TIME_REQ or SYNC_RESPONSE received by the observer on a topic that
\* is not {currentRoomId}/{currentUsername} publishes nothing and gives the
\* time sink nothing.
C13_OwnTopicOnly ==
    [][(/\ last'.op = "on_message" /\ last'.p = Self /\ S.current_view = "observer"
        /\ ActionOf(last'.payload) \in {JStr(A_TIME_REQ), JStr(A_SYNC_RESPONSE)}
        /\ last'.topic # Topic(S.current_room_id, S.current_username))
       => (last'.pubs = <<>> /\ last'.sink = <<>>)]_vars

\* C13's failing case: the observer joined twice; a TIME_REQ on the topic of
\* the earlier join was answered, in the room of the later one
C13_Witness ==
    /\ last.op = "on_message" /\ last.p = Self /\ S.current_view = "observer" /\ Joined(S)
    /\ ActionOf(last.payload) = JStr(A_TIME_REQ)
    /\ last.topic \in S.subs /\ last.topic[1] # S.current_room_id
    /\ Len(last.pubs) = 1 /\ last.pubs[1].topic[1] = S.current_room_id
    /\ ActionOf(last.pubs[1].payload) = JStr(A_SYNC_RESPONSE)

\* the LEAVE of the session s holds
OwnLeave(s) == Msg(Topic(s.current_room_id, s.current_username), LeavePayload)

\* C19: a sync request, by the button or by the hotkey, changes no field of
\* the process; without a session it publishes nothing, and with a session
\* (on a connected transport) it publishes exactly one SYNC_REQ, to
\* {room}/{username} of the session.
C19_RequestSync ==
    [][(last'.p = Self /\ last'.op \in {"on_sync_requested", "on_hotkey_sync"})
       => /\ app' = app
          /\ ~Joined(S) => last'.pubs = <<>>
          /\ (Joined(S) /\ ~NotConnected(S))
                => last'.pubs = <<Msg(Topic(S.current_room_id, S.current_username),
                                      SyncReqPayload)>>]_vars

\* C19's case: the hotkey of a joined observer sent its SYNC_REQ
C19_Witness ==
    /\ last.op = "on_hotkey_sync" /\ last.p = Self /\ Joined(S) /\ S.current_view = "observer"
    /\ last.pubs = <<Msg(Topic(S.current_room_id, S.current_username), SyncReqPayload)>>
    /\ last.box = <<>>

ObserverGot == last'.op = "on_message" /\ last'.p = Self /\ S.current_view = "observer"

\* C21: when the time source fails while a joined observer handles a
\* TIME_REQ, nothing is published, no field changes and no exception leaves
\* the loop's callback; the same when the time sink fails on a
\* SYNC_RESPONSE; and the TIME_REQ that comes right after a failure is
\* answered when the source is up again.
C21_SourceFailureDropped ==
    [][ObserverGot
       => /\ (ActionOf(last'.payload) = JStr(A_TIME_REQ) /\ Joined(S) /\ last'.time = <<>>)
                => (last'.pubs = <<>> /\ last'.box = <<>> /\ ~last'.exc /\ app' = app)
          /\ (ActionOf(last'.payload) = JStr(A_SYNC_RESPONSE) /\ last'.caught)
                => (last'.pubs = <<>> /\ last'.box = <<>> /\ ~last'.exc /\ app' = app)
          /\ (/\ last.op = "on_message" /\ last.caught
              /\ ActionOf(last'.payload) = JStr(A_TIME_REQ) /\ Joined(S) /\ ~NotConnected(S)
              /\ last'.time # <<>>)
                => (Len(last'.pubs) = 1
                    /\ ActionOf(last'.pubs[1].payload) = JStr(A_SYNC_RESPONSE))]_vars

\* C21's case: the time source did not answer a joined observer's TIME_REQ:
\* the exception was caught in the loop's callback and nothing was published
C21_Witness ==
    /\ last.op = "on_message" /\ last.p = Self /\ S.current_view = "observer" /\ Joined(S)
    /\ last.payload = TimeReqPayload(JStr(Alice), JInt(500), JInt(1000))
    /\ last.caught /\ last.time = <<>> /\ last.pubs = <<>> /\ ~last.exc

\* C25: an ASSIGN received in the observer view changes no field, publishes
\* nothing, reaches neither the time source nor the sink and shows nothing;
\* and the SYNC_RESPONSE computed for a TIME_REQ handled right after an
\* ASSIGN is (time + requester_delay - main_observer_delay)/1000, with
\* nothing of the ASSIGN in it.
C25_AssignInformational ==
    [][ObserverGot
       => /\ ActionOf(last'.payload) = JStr(A_ASSIGN)
                => /\ app' = app
                   /\ last'.pubs = <<>> /\ last'.sink = <<>> /\ last'.time = <<>>
                   /\ last'.box = <<>> /\ ~last'.exc /\ ~last'.caught
          /\ (/\ last.op = "on_message" /\ ActionOf(last.payload) = JStr(A_ASSIGN)
              /\ last'.payload = TimeReqPayload(JStr(Alice), JInt(500), JInt(1000))
              /\ Joined(S) /\ ~NotConnected(S) /\ last'.time # <<>>)
                => last'.pubs = <<Msg(Topic(S.current_room_id, Alice),
                                      SyncResponsePayload(
                                          JFloat(last'.time[1] + 500 - 1000, 1000)))>>]_vars

\* C25's case: a joined observer received ASSIGN{time_ms: 500} on its topic
C25_Witness ==
    /\ last.op = "on_message" /\ last.p = Self /\ S.current_view = "observer" /\ Joined(S)
    /\ last.payload = AssignPayload(500)
    /\ last.topic = Topic(S.current_room_id, S.current_username)
    /\ last.pubs = <<>> /\ last.sink = <<>>

\* C26: a join (subscribe, then publish) or a sync request made while the
\* transport is not connected shows an error to the user who made it and
\* no call or message reaches the client; nothing is sent again by itself:
\* the steps nobody asked for (the timer, the connection coming up or going
\* down) hand nothing to the client; and a connect that fails leaves the
\* manager not connected.
C26_NotConnectedFails ==
    [][last'.p = Self
       => /\ (NotConnected(S) /\ last'.op \in {"on_join_clicked", "on_sync_requested"})
                => (last'.box # <<>> /\ last'.calls = <<>> /\ last'.pubs = <<>> /\ ~last'.exc
                    /\ inbox' = inbox)
          /\ (NotConnected(S) /\ last'.op = "on_hotkey_sync")
                => (last'.calls = <<>> /\ last'.pubs = <<>>
                    /\ (S.sync_btn = "normal" => last'.box # <<>>))
          /\ last'.op \in {"timer", "on_connect", "on_disconnect"}
                => (last'.calls = <<>> /\ last'.pubs = <<>> /\ inbox' = inbox)
          /\ (last'.op = "on_connect_requested" /\ last'.box # <<>>)
                => (NotConnected(app'[Self]) /\ ~app'[Self].is_connected
                    /\ app'[Self].link = "none")]_vars

\* C26's case: a joined observer lost its connection and asked for a sync:
\* "Error sending message", and nothing reached the client
C26_Witness ==
    /\ last.op = "on_sync_requested" /\ last.p = Self /\ Joined(S) /\ NotConnected(S)
    /\ last.box = <<"Error sending message">> /\ last.calls = <<>> /\ last.pubs = <<>>

\* C36: the SYNC_RESPONSE to a TIME_REQ received on {room}/{M} goes to
\* {room}/{requester}, the room of the topic the TIME_REQ came on.
C36_ResponseInRequestRoom ==
    [][(/\ ObserverGot /\ ActionOf(last'.payload) = JStr(A_TIME_REQ)
        /\ Len(last'.topic) = 2 /\ last'.pubs # <<>>)
       => /\ Len(last'.pubs) = 1
          /\ ActionOf(last'.pubs[1].payload) = JStr(A_SYNC_RESPONSE)
          /\ last'.pubs[1].topic =
                Topic(last'.topic[1], FormatStr(last'.payload.obj["requester"]))]_vars

\* C36's failing case: the observer joined ABCDE as alice, then Q7XK2 as
\* alice; a TIME_REQ for bob came on ABCDE/alice, still subscribed, and the
\* answer went to Q7XK2/bob
C36_Witness ==
    /\ last.op = "on_message" /\ last.p = Self /\ S.current_view = "observer"
    /\ S.current_room_id = RoomQ7XK2 /\ S.current_username = Alice
    /\ {Topic(RoomABCDE, Alice), Topic(RoomQ7XK2, Alice)} \subseteq S.subs
    /\ last.topic = Topic(RoomABCDE, Alice)
    /\ last.payload = TimeReqPayload(JStr(Bob), JInt(1000), JInt(500))
    /\ Len(last.pubs) = 1 /\ last.pubs[1].topic = Topic(RoomQ7XK2, Bob)

\* the step just taken published a message with action a
JustSent(a) ==
    last.p = Self /\ \E i \in DOMAIN last.pubs : ActionOf(last.pubs[i].payload) = JStr(a)

\* C38: an observer publishes no more LEAVEs than JOINs.  Where the user
\* presses JOIN only while the transport is not connected no JOIN is ever
\* published (the first conjunct, which holds), so no LEAVE ever is.
C38_NoLeaveWithoutJoin ==
    /\ ~JustSent(A_JOIN)
    /\ ~JustSent(A_LEAVE)

\* C38's failing case: Back published a LEAVE for ABCDE/alice, for a session
\* whose JOIN was refused while the transport was not connected
C38_Witness ==
    /\ last.op = "on_back_requested" /\ last.p = Self
    /\ last.pubs = <<Msg(Topic(RoomABCDE, Alice), LeavePayload)>>
    /\ S.link = "up" /\ S.subs = {}
    /\ S.current_room_id = RoomABCDE /\ S.current_username = Alice

(***************************************************************************)
(* Properties of the join form (SpecJoin).                                 *)
(***************************************************************************)
\* ^[A-Z0-9]{5}$
RoomPattern(t) == Len(t) = 5 /\ \A i \in DOMAIN t : t[i] \in ascii_uppercase \cup digits

\* ^[A-Za-z0-9-]{3,20}$
UsernamePattern(t) ==
    /\ Len(t) >= 3 /\ Len(t) <= 20
    /\ \A i \in DOMAIN t : t[i] \in ascii_letters \cup digits \cup {"-"}

\* the dialogs of a join that was rejected
RoomError == <<"Room ID must be 5 alphanumeric characters">>
UsernameError == <<"Username must be 3-20 characters">>

\* the id and the name a user entered: what the entries hold, without the
\* whitespace around it
EnteredRoom(step) == StrStrip(step.topic[1])
EnteredUsername(step) == StrStrip(step.topic[2])

\* the step just taken was a JOIN click of the application
JoinStep == last'.op = "on_join_clicked" /\ last'.p = Self

\* C14: a join that passes validation, made while the transport is
\* connected, sets the session to (room id in upper case, username), then
\* subscribes to {roomId}/{username}, then publishes exactly one JOIN to
\* that topic: the subscribe call comes before the publish call.
C14_JoinSubscribesThenPublishes ==
    [][(/\ JoinStep /\ ~NotConnected(S)
        /\ validate_room_id(last'.topic[1]) /\ validate_username(last'.topic[2]))
       => /\ app'[Self].current_room_id = StrUpper(EnteredRoom(last'))
          /\ \A i \in DOMAIN app'[Self].current_room_id :
                app'[Self].current_room_id[i] \notin ascii_lowercase
          /\ app'[Self].current_username = EnteredUsername(last')
          /\ Topic(app'[Self].current_room_id, app'[Self].current_username) \in app'[Self].subs
          /\ last'.pubs = <<Msg(Topic(app'[Self].current_room_id, app'[Self].current_username),
                                JoinPayload)>>
          /\ last'.calls =
                <<SubscribeCall(Topic(app'[Self].current_room_id, app'[Self].current_username)),
                  PublishCall(Topic(app'[Self].current_room_id, app'[Self].current_username))>>]_vars

\* C14's case: " Q7xk2 " and "ab-12" were entered on a connected transport
C14_Witness ==
    /\ last.op = "on_join_clicked" /\ last.topic[1] = <<" ", "Q", "7", "x", "k", "2", " ">>
    /\ S.current_room_id = RoomQ7XK2 /\ S.current_username = <<"a", "b", "-", "1", "2">>
    /\ Topic(RoomQ7XK2, S.current_username) \in S.subs
    /\ last.pubs = <<Msg(Topic(RoomQ7XK2, S.current_username), JoinPayload)>>
    /\ last.calls = <<SubscribeCall(Topic(RoomQ7XK2, S.current_username)),
                      PublishCall(Topic(RoomQ7XK2, S.current_username))>>

\* C15: whenever a join gives an application that held no session a session
\* (room id and username set), that join handed a JOIN for that room and
\* username to the transport.  (No JOIN goes out before the first session.)
C15_SessionOnlyWhenJoinSent ==
    [][(JoinStep /\ ~Joined(S) /\ Joined(app'[Self]))
       => last'.pubs = <<Msg(Topic(app'[Self].current_room_id, app'[Self].current_username),
                             JoinPayload)>>]_vars

\* C15's failing case: a join made while the transport was not connected left
\* a session, with SYNC enabled, and no JOIN went out
C15_Witness ==
    /\ last.op = "on_join_clicked" /\ NotConnected(S)
    /\ Joined(S) /\ S.current_room_id = StrUpper(EnteredRoom(last))
    /\ S.sync_btn = "normal" /\ S.subs = {}
    /\ last.pubs = <<>> /\ last.calls = <<>> /\ last.box = <<"Error sending join message">>

\* C16: a join whose room id or username does not pass validation shows its
\* error and does nothing else: no call reaches the transport, nothing is
\* published, and the session (as every other field) is as before.
C16_InvalidJoinRejected ==
    [][(JoinStep /\ (~validate_room_id(last'.topic[1]) \/ ~validate_username(last'.topic[2])))
       => /\ last'.box \in {RoomError, UsernameError}
          /\ last'.calls = <<>> /\ last'.pubs = <<>>
          /\ app' = app]_vars

\* C16's case: a four-character room id was entered by a joined observer;
\* the session and the subscription of the join before are still there
C16_Witness ==
    /\ last.op = "on_join_clicked" /\ last.topic[1] = <<"a", "b", "c", "d">>
    /\ last.box = RoomError /\ last.pubs = <<>> /\ last.calls = <<>>
    /\ Joined(S) /\ S.subs = {Topic(S.current_room_id, S.current_username)}

\* C17: a join's room id is accepted exactly when its upper-case form
\* matches ^[A-Z0-9]{5}$, and a session's room id always matches it.
C17_RoomIdPattern ==
    /\ last.op = "on_join_clicked"
          => (last.box # RoomError <=> RoomPattern(StrUpper(EnteredRoom(last))))
    /\ S.current_room_id # None => RoomPattern(S.current_room_id)

\* C17's failing case: "écol1" was accepted; the session and the JOIN are
\* for room "ÉCOL1"
C17_Witness ==
    /\ last.op = "on_join_clicked" /\ last.topic[1] = <<"é", "c", "o", "l", "1">>
    /\ S.current_room_id = <<"É", "C", "O", "L", "1">>
    /\ last.pubs = <<Msg(Topic(S.current_room_id, S.current_username), JoinPayload)>>

\* C18: a join's username (its room id being accepted) is accepted exactly
\* when it has 3 to 20 characters, each an ASCII letter, a digit or a hyphen.
C18_UsernamePattern ==
    (last.op = "on_join_clicked" /\ last.box # RoomError)
        => (last.box # UsernameError <=> UsernamePattern(EnteredUsername(last)))

\* C18's case: a name of 20 characters was accepted, and the JOIN went out under it
C18_Witness ==
    /\ last.op = "on_join_clicked" /\ last.topic[2] = Name20
    /\ S.current_username = Name20
    /\ last.pubs = <<Msg(Topic(RoomABCDE, Name20), JoinPayload)>>

(***************************************************************************)
(* Properties of both roles (SpecBoth).                                    *)
(***************************************************************************)
\* C8: a payload that is not valid JSON, is not a JSON object, has no
\* "action" or has an unrecognized one, delivered on any topic in either
\* role, publishes nothing, reaches no sink, shows no error, changes no
\* field of the process, and no exception leaves the loop's callback.
C8_MalformedDropped ==
    [][(last'.op = "on_message" /\ last'.p = Self /\ last'.payload \in Malformed)
       => /\ last'.pubs = <<>> /\ last'.sink = <<>> /\ last'.box = <<>> /\ ~last'.exc
          /\ app' = app]_vars

\* C8's case: JSON that is no object reached a joined observer that had been
\* a producer with a roster before; what the view raised was caught
C8_Witness ==
    /\ last.op = "on_message" /\ last.p = Self /\ last.payload = NonObjectJson /\ last.caught
    /\ S.current_view = "observer" /\ Joined(S)
    /\ S.room_id # None /\ DOMAIN S.connected_users # {}

\* C23: in the observer view both handlers fire whatever the session: an
\* observer with no room id or username that receives a TIME_REQ publishes a
\* SYNC_RESPONSE (or the attempt fails where it can be seen: an exception is
\* caught in the loop's callback), and one that receives a SYNC_RESPONSE
\* hands a value to the sink.
C23_HandlersFireUnjoined ==
    [][(ObserverGot /\ ~Joined(S) /\ ~NotConnected(S))
       => /\ last'.payload = TimeReqPayload(JStr(Bob), JInt(1000), JInt(500))
                => \/ last'.caught
                   \/ (Len(last'.pubs) = 1
                       /\ ActionOf(last'.pubs[1].payload) = JStr(A_SYNC_RESPONSE))
          /\ ActionOf(last'.payload) = JStr(A_SYNC_RESPONSE) => Len(last'.sink) = 1]_vars

\* C23, as the code has it: the SYNC_RESPONSE handler fires whatever the
\* session (the sink gets the message's value, 0 if it has none), and the
\* TIME_REQ handler is gated: an observer with no room id or username that
\* receives a TIME_REQ publishes nothing, does not ask the time source,
\* raises nothing and changes no field.
C23_TimeReqGatedByJoin ==
    [][ObserverGot
       => /\ (ActionOf(last'.payload) = JStr(A_TIME_REQ) /\ ~Joined(S))
                => /\ last'.pubs = <<>> /\ last'.time = <<>> /\ last'.sink = <<>>
                   /\ ~last'.caught /\ ~last'.exc /\ app' = app
          /\ ActionOf(last'.payload) = JStr(A_SYNC_RESPONSE)
                => last'.sink = <<DictGet(last'.payload.obj, "value", JInt(0))>>]_vars

\* C23's case: an observer that never joined, still subscribed to the room
\* it produced before, received a TIME_REQ on a connected transport and
\* published nothing
C23_Witness ==
    /\ last.op = "on_message" /\ last.p = Self /\ S.current_view = "observer"
    /\ ~Joined(S) /\ ~NotConnected(S)
    /\ last.payload = TimeReqPayload(JStr(Bob), JInt(1000), JInt(500))
    /\ last.pubs = <<>> /\ last.time = <<>> /\ ~last.caught

\* the members a message of the step just taken came without
Lacks(keys) == last'.payload.json = "object" /\ ~(keys \subseteq DOMAIN last'.payload.obj)

\* C24: a message without the members its action comes with is a no-op: a
\* TIME_REQ lacking requester, requester_delay or main_observer_delay causes
\* no SYNC_RESPONSE, and a SYNC_RESPONSE lacking value reaches no sink.
C24_IncompleteIgnored ==
    [][ObserverGot
       => /\ (/\ ActionOf(last'.payload) = JStr(A_TIME_REQ)
              /\ Lacks({"requester", "requester_delay", "main_observer_delay"}))
                => last'.pubs = <<>>
          /\ (ActionOf(last'.payload) = JStr(A_SYNC_RESPONSE) /\ Lacks({"value"}))
                => last'.sink = <<>>]_vars

\* C24's failing case: a joined observer received {"action": "TIME_REQ"} and
\* answered: SYNC_RESPONSE to {room}/unknown with the time it read, unshifted
C24_Witness ==
    /\ last.op = "on_message" /\ last.p = Self /\ S.current_view = "observer" /\ Joined(S)
    /\ last.payload = json_dumps(Action(A_TIME_REQ))
    /\ last.pubs = <<Msg(Topic(S.current_room_id, Unknown),
                         SyncResponsePayload(JFloat(120000, 1000)))>>

(***************************************************************************)
(* Properties of the three applications together (SpecE2E).                *)
(***************************************************************************)
\* the producer is in its role in room ABCDE with alice (delay dR) and bob
\* (delay dM) in the roster and bob selected; alice and bob are joined
Ready(dR, dM) ==
    /\ app[Producer].current_view = "producer" /\ app[Producer].room_id = RoomABCDE
    /\ DOMAIN app[Producer].connected_users = Users
    /\ \A u \in Users : app[Producer].connected_users[u].alive
    /\ DelayOf[app[Producer].connected_users[Alice].time_entry] = dR
    /\ DelayOf[app[Producer].connected_users[Bob].time_entry] = dM
    /\ get_main_observer(app[Producer]) = Bob
    /\ app[AliceApp].current_view = "observer" /\ app[AliceApp].current_room_id = RoomABCDE
    /\ app[AliceApp].current_username = Alice
    /\ app[BobApp].current_view = "observer" /\ app[BobApp].current_room_id = RoomABCDE
    /\ app[BobApp].current_username = Bob

\* the step just taken, by p, published exactly m
Published(p, m) == last.p = p /\ last.pubs = <<m>>

\* alice requested a sync: her SYNC_REQ went out
SyncReqOut ==
    /\ last.op = "on_sync_requested"
    /\ Published(AliceApp, Msg(Topic(RoomABCDE, Alice), SyncReqPayload))

TimeReqOut(dR, dM) ==
    Published(Producer, Msg(Topic(RoomABCDE, Bob), TimeReqPayload(JStr(Alice), JInt(dR), JInt(dM))))

SyncResponseOut(T, dR, dM) ==
    /\ last.time = <<T>>
    /\ Published(BobApp, Msg(Topic(RoomABCDE, Alice),
                             SyncResponsePayload(JFloat(T + dR - dM, 1000))))

\* alice's time sink was given one value v, with v * 1000 = T + dR - dM
SinkApplied(T, dR, dM) ==
    /\ last.op = "on_message" /\ last.p = AliceApp
    /\ Len(last.sink) = 1 /\ NumEquals(last.sink[1], T + dR - dM, 1000)

\* the roster delays of alice and bob
RosterDelay(u) == DelayOf[app[Producer].connected_users[u].time_entry]
ReadyNow == \E dR, dM \in Delays : Ready(dR, dM)

\* each event of a sync, with the values the roster and the time source gave
TimeReqSent == ReadyNow /\ TimeReqOut(RosterDelay(Alice), RosterDelay(Bob))
SyncResponseSent ==
    ReadyNow /\ \E T \in Times : SyncResponseOut(T, RosterDelay(Alice), RosterDelay(Bob))
SinkGiven == ReadyNow /\ \E T \in Times : SinkApplied(T, RosterDelay(Alice), RosterDelay(Bob))

\* what had to come before each event: the message that caused it
InOrder ==
    /\ (last.p = Producer /\ last.pubs # <<>>)
          => (last.payload = SyncReqPayload /\ last.op = "on_message")
    /\ (last.p = BobApp /\ last.op = "on_message" /\ last.pubs # <<>>)
          => \E r, m \in Delays, T \in Times :
                /\ last.payload = TimeReqPayload(JStr(Alice), JInt(r), JInt(m))
                /\ SyncResponseOut(T, r, m)
    /\ (last.p = AliceApp /\ last.sink # <<>>)
          => /\ last.op = "on_message" /\ last.topic = Topic(RoomABCDE, Alice)
             /\ \E r, m \in Delays, T \in Times :
                   /\ last.payload = SyncResponsePayload(JFloat(T + r - m, 1000))
                   /\ SinkApplied(T, r, m)

\* C5: with the producer in its role, alice and bob joined, bob selected and
\* every message delivered, a sync request of alice is eventually followed
\* by her time sink being given (T + dR - dM)/1000, T what bob's time source
\* answered; and the events come in order: the SYNC_REQ, then the TIME_REQ to
\* {room}/bob, then the SYNC_RESPONSE to {room}/alice, then the sink.
C5_EndToEndSync ==
    /\ (ReadyNow /\ SyncReqOut) ~> SinkGiven
    /\ (ReadyNow /\ SyncReqOut) ~> TimeReqSent
    /\ TimeReqSent ~> SyncResponseSent
    /\ SyncResponseSent ~> SinkGiven
    /\ []InOrder

\* C5's case: delays 500 and 1000 and T = 120000 gave alice's sink 119.5
C5_Witness ==
    /\ Ready(500, 1000)
    /\ last.op = "on_message" /\ last.p = AliceApp
    /\ last.sink = <<JFloat(119500, 1000)>>

\* the messages with action a among those the step just taken published
Sent(a) == {i \in DOMAIN last'.pubs : ActionOf(last'.pubs[i].payload) = JStr(a)}

\* C29: no retry, no queue.  A SYNC_REQ is published only by a sync request
\* of its user, one for each request that succeeds; a TIME_REQ is published
\* only by the producer in the step that handles a SYNC_REQ with a main
\* observer selected, one for each; a SYNC_REQ handled with no main observer
\* selected is gone (nothing published, no field changed, nothing kept in any
\* loop), and selecting a main observer publishes nothing.
C29_NoRetryNoQueue ==
    [][/\ Sent(A_SYNC_REQ) # {}
            => (last'.op = "on_sync_requested" /\ Len(last'.pubs) = 1)
       /\ (last'.op = "on_sync_requested" /\ last'.box = <<>>)
            => last'.pubs = <<Msg(Topic(app[last'.p].current_room_id,
                                        app[last'.p].current_username), SyncReqPayload)>>
       /\ Sent(A_TIME_REQ) # {}
            => /\ last'.op = "on_message" /\ last'.p = Producer
               /\ last'.payload = SyncReqPayload /\ last'.main # None
               /\ Len(last'.pubs) = 1
       /\ (/\ last'.op = "on_message" /\ last'.p = Producer
           /\ last'.payload = SyncReqPayload /\ last'.main = None)
            => /\ last'.pubs = <<>> /\ app' = app
               /\ inbox' = [inbox EXCEPT ![Producer] = Tail(@)]
       /\ last'.op = "select_main_observer"
            => (last'.pubs = <<>> /\ inbox' = inbox)]_vars

\* C29's case: alice, in the roster, asked for a sync while no main observer
\* was selected: the producer dropped her SYNC_REQ and nothing is left of it
C29_Witness ==
    /\ last.op = "on_message" /\ last.p = Producer /\ last.payload = SyncReqPayload
    /\ last.topic = Topic(RoomABCDE, Alice) /\ last.main = None
    /\ Alice \in DOMAIN app[Producer].connected_users
    /\ last.pubs = <<>> /\ inbox[Producer] = <<>> /\ inbox[BobApp] = <<>>

\* C30: a joined observer that receives a TIME_REQ on its topic, with its
\* transport connected and its time source answering, publishes exactly one
\* message: SYNC_RESPONSE{(T + requester_delay - main_observer_delay)
\* / 1000} to {room}/{requester}, whatever the producer's roster says at that
\* moment.
C30_AnsweredWithoutRoleCheck ==
    [][\A p \in {AliceApp, BobApp} :
        (/\ last'.op = "on_message" /\ last'.p = p
         /\ app[p].current_view = "observer" /\ Joined(app[p]) /\ ~NotConnected(app[p])
         /\ last'.topic = Topic(app[p].current_room_id, app[p].current_username)
         /\ ActionOf(last'.payload) = JStr(A_TIME_REQ))
        => \E r, m \in Delays, T \in Times :
             /\ last'.payload = TimeReqPayload(JStr(Alice), JInt(r), JInt(m))
             /\ last'.time = <<T>>
             /\ last'.pubs = <<Msg(Topic(app[p].current_room_id, Alice),
                                   SyncResponsePayload(JFloat(T + r - m, 1000)))>>]_vars

\* C30's case: bob answered a TIME_REQ that was on its way when the producer
\* removed him from the roster
C30_Witness ==
    /\ last.op = "on_message" /\ last.p = BobApp
    /\ ActionOf(last.payload) = JStr(A_TIME_REQ)
    /\ Len(last.pubs) = 1 /\ ActionOf(last.pubs[1].payload) = JStr(A_SYNC_RESPONSE)
    /\ app[Producer].current_view = "producer"
    /\ Bob \notin DOMAIN app[Producer].connected_users
    /\ get_main_observer(app[Producer]) # Bob

(***************************************************************************)
(* Properties of the room with all its users (SpecRoom).                   *)
(***************************************************************************)
\* C32: a TIME_REQ, ASSIGN or SYNC_RESPONSE delivered to an application in
\* the producer view, and a JOIN, LEAVE or SYNC_REQ delivered to one in the
\* observer view, its own publishes coming back included, changes no field
\* of any application, publishes nothing, reaches no time source or sink and
\* raises nothing.
C32_DispatchByRole ==
    [][\A p \in Procs :
        (/\ last'.op = "on_message" /\ last'.p = p
         /\ \/ /\ app[p].current_view = "producer"
               /\ ActionOf(last'.payload)
                     \in {JStr(A_TIME_REQ), JStr(A_ASSIGN), JStr(A_SYNC_RESPONSE)}
            \/ /\ app[p].current_view = "observer"
               /\ ActionOf(last'.payload) \in {JStr(A_JOIN), JStr(A_LEAVE), JStr(A_SYNC_REQ)})
        => /\ app' = app
           /\ last'.pubs = <<>> /\ last'.sink = <<>> /\ last'.time = <<>>
           /\ last'.box = <<>> /\ ~last'.exc /\ ~last'.caught]_vars

\* C32's case: the producer's own TIME_REQ came back to it through {room}/#
C32_Witness ==
    /\ last.op = "on_message" /\ last.p = Producer
    /\ app[Producer].current_view = "producer"
    /\ ActionOf(last.payload) = JStr(A_TIME_REQ)
    /\ last.topic[1] = app[Producer].room_id
    /\ last.pubs = <<>>

\* the messages with action a that wait in p's loop
Waiting(p, a) == {i \in DOMAIN inbox[p] : ActionOf(inbox[p][i].payload) = JStr(a)}

\* what one user action put on its way (the users act when nothing waits):
\* no recipient has more than one TIME_REQ or more than one SYNC_RESPONSE
\* waiting, and no delivery calls the sink more than once
OnePerRecipient ==
    /\ \A p \in Procs : Cardinality(Waiting(p, A_TIME_REQ)) <= 1
    /\ \A p \in Procs : Cardinality(Waiting(p, A_SYNC_RESPONSE)) <= 1
    /\ Len(last.sink) <= 1

\* C34: with every message delivered the loops are empty again and again
\* (what a handler publishes never keeps the handlers going), and one sync
\* request puts at most one TIME_REQ and one SYNC_RESPONSE on their way to
\* each recipient, and the sink is called at most once for each.
C34_Quiesces ==
    /\ []<>AllIdle
    /\ []OnePerRecipient

\* C34's failing case: p3 joined as alice, left, and joined as bob; p2
\* joined as alice and asked for a sync with alice as main observer: the
\* TIME_REQ on {room}/alice reached p2 and, through the subscription p3
\* still holds, p3; both answered, and two SYNC_RESPONSEs wait for p2
C34_Witness ==
    /\ app[AliceApp].current_view = "observer" /\ app[AliceApp].current_username = Alice
    /\ app[BobApp].current_view = "observer" /\ app[BobApp].current_username = Bob
    /\ get_main_observer(app[Producer]) = Alice
    /\ Cardinality(Waiting(AliceApp, A_SYNC_RESPONSE)) = 2

\* C37: an observer's sink is called no more often than the observer has
\* published SYNC_REQs for its room and username.  p3's user never asks
\* for a sync here, so p3 has published none: its sink is never called.
C37_SinkOnlyForOwnRequests ==
    ~(last.op = "on_message" /\ last.p = BobApp /\ last.sink # <<>>)

\* C37's failing case: p3, joined as bob after it had been alice, was handed
\* the answer to alice's request on {room}/alice and gave it to its sink
C37_Witness ==
    /\ last.op = "on_message" /\ last.p = BobApp /\ Len(last.sink) = 1
    /\ ActionOf(last.payload) = JStr(A_SYNC_RESPONSE)
    /\ app[BobApp].current_view = "observer"
    /\ app[BobApp].current_room_id = RoomABCDE /\ app[BobApp].current_username = Bob
    /\ last.topic = Topic(RoomABCDE, Alice)
    /\ app[AliceApp].current_username = Alice

=============================================================================
